---- MODULE Spec2Model ----
(***************************************************************************)
(* Resona: EmbeddingService (LanceDB variant) change detection, chunking,  *)
(* buffered persistence.  Strings are sequences of one-character strings,  *)
(* so that identifiers and texts are parsed and cut as the code does.      *)
(***************************************************************************)
EXTENDS Integers, Sequences, FiniteSets, TLC

\* ------------------------------------------------------------------ bounds
\* number of sequential embed / embedBatch calls in one behaviour
MaxCalls == 2
\* provider.maxBatchSize of the modelled backend
MaxBatchSize == 2
\* backend / store failures injected in one behaviour
MaxFailures == 1
\* storeBatchSize option used by the modelled calls
StoreBatchSize == 3
\* progressInterval option used by the modelled calls
ProgressInterval == 1
\* chunkSize / chunkOverlap options used by the modelled calls
ChunkSize == 2
ChunkOverlap == 1

\* ------------------------------------------------------------- input sets
ItemIds == { <<"a">>, <<"b">>, <<"a", "#", "0">> }

\* (text, contextText) pairs; contextText <<>> is the absent / empty one
Short == [text |-> <<"x">>, contextText |-> <<>>]
Other == [text |-> <<"y">>, contextText |-> <<>>]
Long == [text |-> <<"x">>, contextText |-> <<"x", "y", "z", "w">>]

Payloads == { Short, Other, Long }

\* the versions of each item that the modelled callers submit
PayloadsOf(id) ==
  IF id = <<"a">> THEN { Short, Long }
  ELSE IF id = <<"b">> THEN { Short, Other }
  ELSE { Long }


\* canonical order in which the modelled callers list their items
IdOrder == << <<"a">>, <<"b">>, <<"a", "#", "0">> >>

\* ---------------------------------------------------------------- helpers
Min(x, y) == IF x <= y THEN x ELSE y

Range(s) == { s[k] : k \in 1..Len(s) }

DigitChars == <<"0", "1", "2", "3", "4", "5", "6", "7", "8", "9">>

IsDigit(c) == c \in Range(DigitChars)

\* String(n) for n >= 0, as used by the template `${item.id}#${c}`
RECURSIVE NumToString(_)
NumToString(n) ==
  IF n < 10 THEN << DigitChars[n + 1] >>
  ELSE NumToString(n \div 10) \o << DigitChars[(n % 10) + 1] >>

\* id.lastIndexOf("#"), 0-based, -1 when absent
lastIndexOfHash(id) ==
  LET hits == { k \in 1..Len(id) : id[k] = "#" }
  IN IF hits = {} THEN -1
     ELSE (CHOOSE k \in hits : \A j \in hits : j <= k) - 1

getBaseId(id) ==
  LET hashIndex == lastIndexOfHash(id)
      suffix == SubSeq(id, hashIndex + 2, Len(id))
  IN IF hashIndex = -1 THEN id
     ELSE IF Len(suffix) >= 1 /\ \A k \in 1..Len(suffix) : IsDigit(suffix[k])
          THEN SubSeq(id, 1, hashIndex)
          ELSE id

\* SHA-256 is modelled as an injective tag of the hashed text
hashText(text) == <<"sha256">> \o text

\* item.contextText || item.text  (an empty contextText is falsy)
textToEmbed(item) ==
  IF item.contextText # <<>> THEN item.contextText ELSE item.text

RECURSIVE chunkLoop(_, _, _, _, _)
chunkLoop(text, chunkSize, overlap, start, chunks) ==
  IF start < Len(text)
  THEN LET end == Min(start + chunkSize, Len(text))
           pushed == Append(chunks, SubSeq(text, start + 1, end))
           next == start + chunkSize - overlap
       IN IF Len(text) - next < overlap /\ next < Len(text)
          THEN pushed
          ELSE chunkLoop(text, chunkSize, overlap, next, pushed)
  ELSE chunks

\* only the first window
chunkText_firstWindow(text, chunkSize, overlap) ==
  << SubSeq(text, 1, Min(chunkSize, Len(text))) >>

chunkText(text, chunkSize, overlap) ==
  IF Len(text) <= chunkSize THEN << text >>
  ELSE chunkLoop(text, chunkSize, overlap, 0, << >>)

\* ------------------------------------------------------------------ state
VARIABLES
  table,            \* rows of the "embeddings" table, in scan order
  tableExists,      \* this.table # null
  calls,            \* number of calls made so far
  pc,               \* "idle" | "loop" | "done": position inside embedBatch
  items,            \* embedBatch argument
  forceAll,         \* embedBatch option
  skipped, errors,  \* result.skipped, result.errors
  processedBaseIds, \* result.processed is its cardinality
  buffer, stored,   \* write buffer and persisted counter
  existingIds,      \* ids known to be in the table
  itemsToEmbed, chunksToEmbed,
  i,                \* loop index over chunksToEmbed (0-based)
  prevTable,        \* table at the start of the current call
  flushLog,         \* storeEmbeddingsBatch calls of the current call
  embedLog,         \* provider.embed calls of the current call
  reports,          \* BatchProgress reports of the current call
  failures          \* failures injected so far

\* embedBatch options: records per embedding request (batchSize) and per
\* store write (storeBatchSize)
VARIABLES batchSize, storeBatchSize

\* EmbeddingService.search: the last call's arguments, the rows the store
\* returned for it and the results it returned
VARIABLES searched, searchQuery, searchK, searchRows, searchResults

\* UnifiedSearchService: this.sources in Map order, and the last search call
VARIABLES sources, uPhase, uK, uOptions, uResponses, uInvoked, uOutcome

\* the source objects the last call reached (since the registry last
\* changed) and what listSources / getItem returned
VARIABLES uReached, uReply

\* history of the registry calls: the object registered last under each
\* sourceId still registered, and the sourceIds whose registration was
\* replaced by another object
VARIABLES lastRegistered, superseded

\* index maintenance: the table's rows and vector index as the store reports
\* them, and the last getDiagnostics / maintain call
VARIABLES mTable, numRows, index, mPhase, mOptions, mEnv, mCalls,
          diagnostics, mResult, mRepeats

\* delete, deleteByIds, cleanup and getEmbedding: the last call's name, the
\* ids it was given, the store call that failed during it, the table before
\* it and what it returned
VARIABLES opName, opIds, opFault, opBefore, opResult

\* concurrent embedBatch calls on one service: for each call its position
\* and the locals it carries across its awaits
VARIABLES writers

\* initialization: this.initialized, this.initPromise (0 for null, else the
\* number of the initialize() run), this.db (0 for null, else the run that
\* connected), this.table # null, whether the database holds an
\* "embeddings" table, the initialize() runs, the operations and the number
\* of close() calls
VARIABLES initialized, initPromise, db, tableHandle, hasEmbeddings,
          inits, ops, closes

\* a UnifiedSearchService.search call whose per-source searches are pending:
\* its arguments, the sourcesToSearch array it built, the sources that have
\* answered and its outcome
VARIABLES pend

\* chunkText called on its own
VARIABLES cText, cChunkSize, cOverlap, cChunks, cDone

\* chunkText run one loop iteration at a time: the local start, the chunks
\* pushed so far and the position ("idle" | "loop" | "done")
VARIABLES wStart, wChunks, wPhase

embedVars == << table, tableExists, calls, pc, items, forceAll,
                skipped, errors, processedBaseIds, buffer,
                stored, existingIds, itemsToEmbed, chunksToEmbed, i,
                prevTable, flushLog, embedLog, reports, failures,
                batchSize, storeBatchSize >>

searchVars == << searched, searchQuery, searchK, searchRows, searchResults >>

unifiedVars == << sources, uPhase, uK, uOptions, uResponses, uInvoked,
                  uOutcome, uReached, uReply, lastRegistered, superseded >>

maintVars == << mTable, numRows, index, mPhase, mOptions, mEnv, mCalls,
                diagnostics, mResult, mRepeats >>

chunkVars == << cText, cChunkSize, cOverlap, cChunks, cDone,
                wStart, wChunks, wPhase >>

\* what the embed / embedBatch handlers never touch
opVars == << opName, opIds, opFault, opBefore, opResult >>

\* ensureInitialized / initialize / close
initVars == << initialized, initPromise, db, tableHandle, hasEmbeddings,
               inits, ops, closes >>

concVars == << writers, initVars, pend >>

auxVars == << searchVars, unifiedVars, maintVars, chunkVars, opVars,
             concVars >>

vars == << embedVars, auxVars >>

\* ------------------------------------------------- the vector store (table)
\* a buffered EmbeddingRecord as written to the table; pos is the record's
\* object identity inside one embedBatch call and is not persisted
Row(r) == [id |-> r.id, text_hash |-> r.text_hash,
           context_text |-> r.context_text]

Rows(recs) == [k \in 1..Len(recs) |-> Row(recs[k])]

\* a delete whose predicate is negated
tableDelete_complement(tbl, ids) == SelectSeq(tbl, LAMBDA r : r.id \in ids)

\* table.delete("id = 'x' OR id = 'y' ...")
tableDelete(tbl, ids) == SelectSeq(tbl, LAMBDA r : r.id \notin ids)

\* table.mergeInsert("id").whenMatchedUpdateAll().whenNotMatchedInsertAll()
RECURSIVE mergeInsert(_, _)
mergeInsert(tbl, recs) ==
  IF Len(recs) = 0 THEN tbl
  ELSE LET r == Row(Head(recs))
           matched == \E k \in 1..Len(tbl) : tbl[k].id = r.id
           merged == IF matched
                     THEN [k \in 1..Len(tbl) |->
                             IF tbl[k].id = r.id THEN r ELSE tbl[k]]
                     ELSE Append(tbl, r)
       IN mergeInsert(merged, Tail(recs))

\* storeEmbeddingsBatch(records, existingIds); failAt = n > 0 makes the n-th
\* write operation of the call throw (0: none throws)
storeEmbeddingsBatch(tbl, exists, records, known, failAt) ==
  IF Len(records) = 0
  THEN [table |-> tbl, tableExists |-> exists, threw |-> FALSE]
  ELSE IF ~exists
  THEN IF failAt = 1
       THEN [table |-> tbl, tableExists |-> exists, threw |-> TRUE]
       ELSE IF Len(records) > 1 /\ failAt = 2
       THEN [table |-> << Row(records[1]) >>, tableExists |-> TRUE,
             threw |-> TRUE]
       ELSE [table |-> Rows(records), tableExists |-> TRUE, threw |-> FALSE]
  ELSE LET newRecords == SelectSeq(records, LAMBDA r : r.id \notin known)
           updateRecords == SelectSeq(records, LAMBDA r : r.id \in known)
           addFails == Len(newRecords) > 0 /\ failAt = 1
           updFails == Len(updateRecords) > 0
                       /\ failAt = (IF Len(newRecords) > 0 THEN 2 ELSE 1)
           added == tbl \o Rows(newRecords)
       IN IF addFails
          THEN [table |-> tbl, tableExists |-> TRUE, threw |-> TRUE]
          ELSE IF updFails
          THEN [table |-> added, tableExists |-> TRUE, threw |-> TRUE]
          ELSE [table |-> mergeInsert(added, updateRecords),
                tableExists |-> TRUE, threw |-> FALSE]

\* ------------------------------------------- embedBatch: change detection
Undefined == << "undefined" >>

\* baseHashMap.get(baseId): hash of the first scanned row of that base id
baseHashMapGet(tbl, loaded, baseId) ==
  LET hits == { k \in 1..Len(tbl) : getBaseId(tbl[k].id) = baseId }
  IN IF ~loaded \/ hits = {} THEN Undefined
     ELSE tbl[CHOOSE k \in hits : \A j \in hits : k <= j].text_hash

\* existingChunks.get(baseId) as a set of chunk ids ({} when undefined)
existingChunksGet(tbl, loaded, baseId) ==
  IF ~loaded THEN {}
  ELSE { tbl[k].id : k \in { j \in 1..Len(tbl) : getBaseId(tbl[j].id) = baseId } }

loadExistingIds(tbl, loaded) ==
  IF ~loaded THEN {} ELSE { tbl[k].id : k \in 1..Len(tbl) }

needsEmbedding(tbl, loaded, force, item) ==
  force \/ baseHashMapGet(tbl, loaded, getBaseId(item.id))
             # hashText(textToEmbed(item))

filterItems(tbl, loaded, force, its) ==
  SelectSeq(its, LAMBDA it : needsEmbedding(tbl, loaded, force, it))

\* no old chunk found for the items to re-embed
idsToDelete_none(tbl, loaded, toEmbed) == {}

idsToDelete(tbl, loaded, toEmbed) ==
  UNION { existingChunksGet(tbl, loaded, getBaseId(toEmbed[k].id)) :
            k \in 1..Len(toEmbed) }

\* ---------------------------------------------- embedBatch: chunk expansion
\* every chunk id suffixed, the only chunk of a short text included
chunksOfItem_alwaysSuffixed(item) ==
  LET textChunks == chunkText(textToEmbed(item), ChunkSize, ChunkOverlap)
      textHash == hashText(textToEmbed(item))
  IN [c \in 1..Len(textChunks) |->
        [chunkId |-> item.id \o <<"#">> \o NumToString(c - 1),
         baseId |-> item.id, text |-> textChunks[c],
         textHash |-> textHash]]

chunksOfItem(item) ==
  LET textChunks == chunkText(textToEmbed(item), ChunkSize, ChunkOverlap)
      textHash == hashText(textToEmbed(item))
  IN IF Len(textChunks) = 1
     THEN << [chunkId |-> item.id, baseId |-> item.id,
              text |-> textChunks[1], textHash |-> textHash] >>
     ELSE [c \in 1..Len(textChunks) |->
             [chunkId |-> item.id \o <<"#">> \o NumToString(c - 1),
              baseId |-> item.id, text |-> textChunks[c],
              textHash |-> textHash]]

RECURSIVE expandItems(_)
expandItems(its) ==
  IF Len(its) = 0 THEN << >>
  ELSE chunksOfItem(Head(its)) \o expandItems(Tail(its))

\* ------------------------------------------------------------ call inputs
None == [text |-> << >>, contextText |-> << >>, absent |-> TRUE]

RECURSIVE listFrom(_, _)
listFrom(f, k) ==
  IF k > Len(IdOrder) THEN << >>
  ELSE LET id == IdOrder[k]
       IN (IF f[id] = None THEN << >>
           ELSE << [id |-> id, text |-> f[id].text,
                    contextText |-> f[id].contextText] >>)
          \o listFrom(f, k + 1)

\* item lists with pairwise distinct ids (Item.id is unique within a corpus)
ItemLists ==
  { listFrom(f, 1) :
      f \in { h \in [ItemIds -> Payloads \cup {None}] :
                \A id \in ItemIds : h[id] \in PayloadsOf(id) \cup {None} } }

Items ==
  UNION { { [id |-> id, text |-> p.text, contextText |-> p.contextText] :
              p \in PayloadsOf(id) } : id \in ItemIds }

\* ------------------------------------------------------------------- Init
\* no search call made yet
SearchIdle ==
  /\ searched = FALSE
  /\ searchQuery = << >>
  /\ searchK = 0
  /\ searchRows = << >>
  /\ searchResults = << >>

\* a UnifiedSearchService with no source registered and no call made
\* a getItem answer: null, or an item with its preview
NoItem == [given |-> FALSE, preview |-> << >>]

\* neither listSources nor getItem called since the registry last changed
\* (answer: what the getItem of the source reached did)
NoReply ==
  [op |-> "none", sourceId |-> << >>, itemId |-> << >>,
   answer |-> [rejects |-> FALSE, item |-> NoItem],
   status |-> "resolved", item |-> NoItem, listed |-> << >>]

UnifiedIdle ==
  /\ uReached = {}
  /\ uReply = NoReply
  /\ lastRegistered = {}
  /\ superseded = {}
  /\ sources = << >>
  /\ uPhase = "idle"
  /\ uK = 0
  /\ uOptions = [sourceTypes |-> [given |-> FALSE, values |-> {}],
                 sources |-> [given |-> FALSE, values |-> {}]]
  /\ uResponses = << >>
  /\ uInvoked = {}
  /\ uOutcome = << >>

\* no table rows, no vector index, no maintenance call made
MaintIdle ==
  /\ mTable = FALSE
  /\ numRows = 0
  /\ index = [exists |-> FALSE, numIndexedRows |-> 0]
  /\ mPhase = "idle"
  /\ mOptions = << >>
  /\ mEnv = << >>
  /\ mCalls = << >>
  /\ diagnostics = << >>
  /\ mResult = << >>
  /\ mRepeats = 0

\* what a call returns that returns nothing
NoResult == [removed |-> 0, rows |-> << >>]

\* none of delete, deleteByIds, cleanup and getEmbedding called
OpIdle ==
  /\ opName = "none"
  /\ opIds = {}
  /\ opFault = "none"
  /\ opBefore = << >>
  /\ opResult = NoResult

\* an embedBatch call not started
NotStarted ==
  [pc |-> "idle",
   item |-> [id |-> << >>, text |-> << >>, contextText |-> << >>],
   toDelete |-> {}, existingIds |-> {}, afterOther |-> FALSE]

\* largest number of operations in flight
MaxOps == 3

Ops == 1..MaxOps

\* what an operation found when it went on after ensureInitialized
NotSeen == [initialized |-> FALSE, db |-> 0, closes |-> 0, fresh |-> FALSE]

\* an operation not called yet
NotCalled == [pc |-> "idle", awaits |-> 0, epoch |-> 0, saw |-> NotSeen]

\* the fields of a service just constructed
Constructed ==
  /\ initialized = FALSE
  /\ initPromise = 0
  /\ db = 0
  /\ tableHandle = FALSE
  /\ inits = << >>
  /\ ops = [o \in Ops |-> NotCalled]
  /\ closes = 0

\* no unified search called yet
NoSearch ==
  [phase |-> "none", count |-> 0, k |-> 0,
   options |-> [sourceTypes |-> [given |-> FALSE, values |-> {}],
                sources |-> [given |-> FALSE, values |-> {}]],
   registry |-> << >>, toSearch |-> << >>, called |-> {},
   answered |-> {}, answers |-> << >>,
   outcome |-> [status |-> "none", results |-> << >>],
   changedBefore |-> FALSE]

\* no concurrent call started
ConcIdle ==
  /\ writers = << NotStarted, NotStarted >>
  /\ Constructed
  /\ hasEmbeddings = FALSE
  /\ pend = NoSearch

\* chunkText not called
ChunkIdle ==
  /\ cText = << >>
  /\ cChunkSize = 0
  /\ cOverlap = 0
  /\ cChunks = << >>
  /\ cDone = FALSE
  /\ wStart = 0
  /\ wChunks = << >>
  /\ wPhase = "idle"

\* a new EmbeddingService: no table, no call in progress
FreshService ==
  /\ table = << >>
  /\ tableExists = FALSE
  /\ calls = 0
  /\ pc = "idle"
  /\ items = << >>
  /\ forceAll = FALSE
  /\ skipped = 0
  /\ errors = 0
  /\ processedBaseIds = {}
  /\ buffer = << >>
  /\ stored = 0
  /\ existingIds = {}
  /\ itemsToEmbed = << >>
  /\ chunksToEmbed = << >>
  /\ i = 0
  /\ prevTable = << >>
  /\ flushLog = << >>
  /\ embedLog = << >>
  /\ reports = << >>
  /\ failures = 0

\* a new EmbeddingService and the batch sizes its callers use
ServiceInit ==
  /\ FreshService
  /\ batchSize = MaxBatchSize
  /\ storeBatchSize = StoreBatchSize

Init ==
  /\ ServiceInit
  /\ SearchIdle
  /\ UnifiedIdle
  /\ MaintIdle
  /\ ChunkIdle
  /\ OpIdle
  /\ ConcIdle

\* ------------------------------------------- embedBatch, up to the loop
embedBatchStart(its, force) ==
  /\ pc \in {"idle", "done"}
  /\ calls < MaxCalls
  /\ LET loaded == ~force /\ tableExists
         toEmbed == filterItems(table, loaded, force, its)
         del == idsToDelete(table, loaded, toEmbed)
         deletes == del # {} /\ tableExists
     IN /\ itemsToEmbed' = toEmbed
        /\ skipped' = Len(its) - Len(toEmbed)
        /\ table' = IF deletes THEN tableDelete(table, del) ELSE table
        /\ existingIds' = IF deletes
                          THEN loadExistingIds(table, loaded) \ del
                          ELSE loadExistingIds(table, loaded)
        /\ chunksToEmbed' = expandItems(toEmbed)
  /\ calls' = calls + 1
  /\ pc' = "loop"
  /\ items' = its
  /\ forceAll' = force
  /\ errors' = 0
  /\ processedBaseIds' = {}
  /\ buffer' = << >>
  /\ stored' = 0
  /\ i' = 0
  /\ prevTable' = table
  /\ flushLog' = << >>
  /\ embedLog' = << >>
  /\ reports' = << >>
  /\ UNCHANGED << batchSize, storeBatchSize, auxVars >>
  /\ UNCHANGED << tableExists, failures >>

\* --------------------------------------------- embedBatch: one group
processed == Cardinality(processedBaseIds)

progressReport(proc, skip, errs, sto, bufSize, isFinal) ==
  [processed |-> proc, skipped |-> skip, errors |-> errs,
   total |-> Len(items), stored |-> sto, bufferSize |-> bufSize,
   final |-> isFinal]

\* records built from a group whose provider.embed call succeeded
recordsOf(first, batchChunks) ==
  LET all == [k \in 1..Len(batchChunks) |->
                [id |-> batchChunks[k].chunkId,
                 text_hash |-> batchChunks[k].textHash,
                 context_text |-> batchChunks[k].text,
                 pos |-> first + k]]
  IN SelectSeq(all, LAMBDA r : Len(r.id) # 0)

emptyIdCount(batchChunks) ==
  Cardinality({ k \in 1..Len(batchChunks) : Len(batchChunks[k].chunkId) = 0 })

positions(recs) == [k \in 1..Len(recs) |-> recs[k].pos]

\* catch of a failed provider.embed: result.errors += batchChunks.length
errorsAfterBatchFailure_one(errs, batchChunks) == errs + 1

errorsAfterBatchFailure(errs, batchChunks) == errs + Len(batchChunks)

\* catch of a failed threshold / final flush: result.errors += flushSize
errorsAfterFlushFailure_one(errs, flushSize) == errs + 1

errorsAfterFlushFailure(errs, flushSize) == errs + flushSize

\* buffer.length = 0 after a threshold flush, on success and in the catch
bufferAfterFlush_keepOnError(buf, threw) == IF threw THEN buf ELSE << >>

bufferAfterFlush(buf, threw) == << >>

\* a slice that leaves out the element before its end
slice_short(s, from, to) == SubSeq(s, from + 1, Min(to, Len(s)) - 1)

\* s.slice(from, to) for 0 <= from <= to
slice(s, from, to) == SubSeq(s, from + 1, Min(to, Len(s)))

\* buffer.length > storeBatchSize
thresholdReached_above(n, s) == n > s

\* buffer.length >= storeBatchSize
thresholdReached(n, s) == n >= s

\* a persisted counter that counts flushes instead of records
storedAfterFlush_perFlush(sto, flushSize) == sto + 1

\* stored += flushSize after a flush that succeeded
storedAfterFlush(sto, flushSize) == sto + flushSize

\* one iteration of the for loop over chunksToEmbed: provider.embed, record
\* building, buffer push, threshold flush, counters, progress report
embedBatchGroup(embedOk, failAt) ==
  /\ pc = "loop"
  /\ i < Len(chunksToEmbed)
  /\ LET batchChunks == slice(chunksToEmbed, i, i + batchSize)
         records == recordsOf(i, batchChunks)
         pushed == buffer \o records
         flushes == embedOk /\ thresholdReached(Len(pushed), storeBatchSize)
         flushSize == Len(pushed)
         res == storeEmbeddingsBatch(table, tableExists, pushed,
                                     existingIds, failAt)
         errors0 == errors + emptyIdCount(batchChunks)
         errors1 == IF ~embedOk
                    THEN errorsAfterBatchFailure(errors, batchChunks)
                    ELSE IF flushes /\ res.threw
                    THEN errorsAfterFlushFailure(errors0, flushSize)
                    ELSE errors0
         stored1 == IF flushes /\ ~res.threw
                    THEN storedAfterFlush(stored, flushSize)
                    ELSE stored
         buffer1 == IF ~embedOk THEN buffer
                    ELSE IF flushes THEN bufferAfterFlush(pushed, res.threw)
                    ELSE pushed
         done1 == IF embedOk
                  THEN processedBaseIds
                       \cup { chunksToEmbed[records[k].pos].baseId :
                                k \in 1..Len(records) }
                  ELSE processedBaseIds
     IN /\ embedLog' = Append(embedLog,
                              [first |-> i, size |-> Len(batchChunks),
                               ok |-> embedOk])
        /\ errors' = errors1
        /\ stored' = stored1
        /\ buffer' = buffer1
        /\ processedBaseIds' = done1
        /\ table' = IF flushes THEN res.table ELSE table
        /\ tableExists' = IF flushes THEN res.tableExists ELSE tableExists
        /\ flushLog' = IF flushes
                       THEN Append(flushLog, [recs |-> positions(pushed),
                                              ok |-> ~res.threw,
                                              final |-> FALSE])
                       ELSE flushLog
        /\ failures' = failures + (IF embedOk THEN 0 ELSE 1)
                                 + (IF flushes /\ res.threw THEN 1 ELSE 0)
        /\ failures' <= MaxFailures
        /\ reports' = IF i % (ProgressInterval * batchSize) < batchSize
                      THEN Append(reports,
                                  progressReport(Cardinality(done1), skipped,
                                                 errors1, stored1,
                                                 Len(buffer1), FALSE))
                      ELSE reports
  /\ i' = i + batchSize
  /\ UNCHANGED << batchSize, storeBatchSize, auxVars >>
  /\ UNCHANGED << calls, pc, items, forceAll,
                  skipped, existingIds, itemsToEmbed,
                  chunksToEmbed, prevTable >>

\* after the loop: final flush, final progress report, return
embedBatchFinish(failAt) ==
  /\ pc = "loop"
  /\ i >= Len(chunksToEmbed)
  /\ LET flushes == Len(buffer) > 0
         flushSize == Len(buffer)
         res == storeEmbeddingsBatch(table, tableExists, buffer,
                                     existingIds, failAt)
         errors1 == IF flushes /\ res.threw
                    THEN errorsAfterFlushFailure(errors, flushSize)
                    ELSE errors
         stored1 == IF flushes /\ ~res.threw
                    THEN storedAfterFlush(stored, flushSize)
                    ELSE stored
     IN /\ errors' = errors1
        /\ stored' = stored1
        /\ table' = IF flushes THEN res.table ELSE table
        /\ tableExists' = IF flushes THEN res.tableExists ELSE tableExists
        /\ flushLog' = IF flushes
                       THEN Append(flushLog, [recs |-> positions(buffer),
                                              ok |-> ~res.threw,
                                              final |-> TRUE])
                       ELSE flushLog
        /\ failures' = failures + (IF flushes /\ res.threw THEN 1 ELSE 0)
        /\ failures' <= MaxFailures
        /\ reports' = Append(reports,
                             progressReport(processed, skipped, errors1,
                                            stored1, 0, TRUE))
  /\ pc' = "done"
  /\ UNCHANGED << batchSize, storeBatchSize, auxVars >>
  /\ UNCHANGED << calls, items, forceAll,
                  skipped, processedBaseIds, buffer, existingIds,
                  itemsToEmbed, chunksToEmbed, i, prevTable, embedLog >>

\* ---------------------------------------------------------- embed (single)
\* outcome: "ok", "embedFail" (provider.embedSingle rejects) or "storeFail"
\* (createTable / table.add rejects)
embed(item, outcome) ==
  /\ pc \in {"idle", "done"}
  /\ calls < MaxCalls
  /\ LET textHash == hashText(textToEmbed(item))
         hits == { k \in 1..Len(table) : table[k].id = item.id }
         unchanged == /\ tableExists
                      /\ hits # {}
                      /\ table[CHOOSE k \in hits : \A j \in hits : k <= j]
                           .text_hash = textHash
         record == [id |-> item.id, text_hash |-> textHash,
                    context_text |-> textToEmbed(item)]
         fails == ~unchanged /\ outcome # "ok"
     IN /\ failures' = failures + (IF fails THEN 1 ELSE 0)
        /\ failures' <= MaxFailures
        /\ IF unchanged \/ outcome = "embedFail"
           THEN UNCHANGED << table, tableExists >>
           ELSE IF ~tableExists
           THEN IF outcome = "storeFail"
                THEN UNCHANGED << table, tableExists >>
                ELSE table' = << record >> /\ tableExists' = TRUE
           ELSE /\ table' = IF outcome = "storeFail"
                            THEN tableDelete(table, {item.id})
                            ELSE Append(tableDelete(table, {item.id}), record)
                /\ UNCHANGED tableExists
  /\ calls' = calls + 1
  /\ pc' = "idle"
  /\ UNCHANGED << batchSize, storeBatchSize, auxVars >>
  /\ UNCHANGED << items, forceAll, skipped,
                  errors, processedBaseIds, buffer, stored, existingIds,
                  itemsToEmbed, chunksToEmbed, i, prevTable, flushLog,
                  embedLog, reports >>

\* ------------------------------------------------------------------- Next
FailPoints == 0..2

Next ==
  \/ \E its \in ItemLists, force \in BOOLEAN : embedBatchStart(its, force)
  \/ \E embedOk \in BOOLEAN, failAt \in FailPoints :
        embedBatchGroup(embedOk, failAt)
  \/ \E failAt \in FailPoints : embedBatchFinish(failAt)
  \/ \E item \in Items, outcome \in {"ok", "embedFail", "storeFail"} :
        embed(item, outcome)

Spec == Init /\ [][Next]_vars

\* ------------------------------------------------- EmbeddingService.search
\* largest k of a search call
MaxK == 2

\* query texts
Queries == { <<"x">>, <<"y">>, <<"x", "y">> }

\* stands for the store's _distance between the query vector and a row's
\* vector (provider.embedSingle(query) against the vector of the row's text):
\* the number of positions at which the two texts differ
distance(q, text) ==
  LET n == IF Len(q) >= Len(text) THEN Len(q) ELSE Len(text)
  IN Cardinality({ p \in 1..n :
                     \/ p > Len(q)
                     \/ p > Len(text)
                     \/ q[p] # text[p] })

\* s reordered by ascending key, equal keys staying in their order
\* (Array.prototype.sort is stable; nearest rows come first)
stableSortBy(s, key) ==
  LET rank(j) == 1 + Cardinality({ m \in 1..Len(s) :
                                     \/ key[m] < key[j]
                                     \/ key[m] = key[j] /\ m < j })
  IN [r \in 1..Len(s) |-> s[CHOOSE j \in 1..Len(s) : rank(j) = r]]

\* table.vectorSearch(queryEmbedding).limit(searchLimit).toArray()
vectorSearch(tbl, q, searchLimit) ==
  LET rows == [j \in 1..Len(tbl) |->
                 [id |-> tbl[j].id, context_text |-> tbl[j].context_text,
                  _distance |-> distance(q, tbl[j].context_text)]]
      nearest == stableSortBy(rows, [j \in 1..Len(rows) |-> rows[j]._distance])
  IN SubSeq(nearest, 1, Min(searchLimit, Len(nearest)))

\* the SearchResult built from one row
resultOf(row) ==
  [id |-> getBaseId(row.id), distance |-> row._distance,
   similarity |-> 1 - row._distance, contextText |-> row.context_text]

\* bestByBaseId.set: a Map keeps a key at the place of its first insertion
mapSet(best, result) ==
  IF \E m \in 1..Len(best) : best[m].id = result.id
  THEN [m \in 1..Len(best) |->
          IF best[m].id = result.id THEN result ELSE best[m]]
  ELSE Append(best, result)

\* the loop over the rows: keep a row's result when its base id is new or
\* its similarity is strictly higher than the kept one
RECURSIVE bestByBaseId(_, _)
bestByBaseId(rows, best) ==
  IF Len(rows) = 0 THEN best
  ELSE LET result == resultOf(Head(rows))
           existing == { m \in 1..Len(best) : best[m].id = result.id }
           keep == \/ existing = {}
                   \/ \E m \in existing : result.similarity > best[m].similarity
       IN bestByBaseId(Tail(rows),
                       IF keep THEN mapSet(best, result) ELSE best)

\* dedupedResults.sort((a, b) => b.similarity - a.similarity).slice(0, k)
topK(results, kk) ==
  LET sorted == stableSortBy(results,
                  [j \in 1..Len(results) |-> 0 - results[j].similarity])
  IN SubSeq(sorted, 1, Min(kk, Len(sorted)))

search(q, kk) ==
  /\ pc \in {"idle", "done"}
  /\ ~searched
  /\ LET rows == IF tableExists THEN vectorSearch(table, q, kk * 5) ELSE << >>
     IN /\ searchRows' = rows
        /\ searchResults' = topK(bestByBaseId(rows, << >>), kk)
  /\ searched' = TRUE
  /\ searchQuery' = q
  /\ searchK' = kk
  /\ UNCHANGED << embedVars, opVars, concVars, unifiedVars, maintVars, chunkVars >>

\* a context text of eleven characters: more chunks than the rows asked
\* from the store for k = 2
Huge ==
  [text |-> <<"x">>,
   contextText |-> <<"x", "x", "x", "x", "x", "x", "x", "x", "x", "x", "x">>]

\* item lists with pairwise distinct ids, every id with every payload
SearchItemLists ==
  { listFrom(f, 1) : f \in [ItemIds -> Payloads \cup {Huge, None}] }

\* one embedBatch on a new service, nothing failing, then one search
NextSearch ==
  \/ \E its \in SearchItemLists :
        calls = 0 /\ ~searched /\ embedBatchStart(its, FALSE)
  \/ ~searched /\ embedBatchGroup(TRUE, 0)
  \/ ~searched /\ embedBatchFinish(0)
  \/ \E q \in Queries, kk \in 1..MaxK : search(q, kk)

SpecSearch == Init /\ [][NextSearch]_vars

\* ---------------------------------------------------- UnifiedSearchService
\* hierarchical source ids "t/m", "t/w" and "e/w/x"
SourceIds == { <<"t", "/", "m">>, <<"t", "/", "w">>,
               <<"e", "/", "w", "/", "x">> }

\* values of options.sourceTypes entries
SourceTypes == { <<"t">>, <<"e">> }

\* an optional array argument: absent, or given with its elements (only
\* includes() is used on it)
Absent == [given |-> FALSE, values |-> {}]

Given(values) == [given |-> TRUE, values |-> values]

\* options of a search call
UnifiedOptions ==
  [sourceTypes : {Absent} \cup { Given(v) : v \in SUBSET SourceTypes },
   sources : {Absent} \cup { Given(v) : v \in SUBSET SourceIds }]

\* parseSourceId(sourceId).type: sourceId.split("/")[0]
parseSourceIdType(sourceId) ==
  LET slashes == { p \in 1..Len(sourceId) : sourceId[p] = "/" }
  IN IF slashes = {} THEN sourceId
     ELSE SubSeq(sourceId, 1, (CHOOSE p \in slashes :
                                 \A q \in slashes : p <= q) - 1)

\* what a source's search(query, k) does: it rejects, or resolves to a list
\* of SearchResults (the source decides their number and order)
Reject == [rejects |-> TRUE, results |-> << >>]

Resolve(results) == [rejects |-> FALSE, results |-> results]

sourceResult(id, sim) ==
  [id |-> id, similarity |-> sim, contextText |-> <<"text of">> \o id]

SourceResponses ==
  { Resolve(<< >>),
    Resolve(<< sourceResult(<<"i">>, 3) >>),
    Resolve(<< sourceResult(<<"i">>, 1), sourceResult(<<"j">>, 3) >>),
    Resolve(<< sourceResult(<<"i">>, 2), sourceResult(<<"j">>, 2),
               sourceResult(<<"k">>, 1) >>) }

registeredIds == { sources[m].sourceId : m \in 1..Len(sources) }

\* a SearchSource object: its sourceId, its description and whether it has
\* the optional getItem method
Source(id, description, hasGetItem) ==
  [sourceId |-> id, description |-> description, hasGetItem |-> hasGetItem]

Descriptions == { "first", "second" }

SourceObjects ==
  { Source(id, d, g) : id \in SourceIds, d \in Descriptions, g \in BOOLEAN }

\* a Map that adds the source after the existing entries, whatever its key
sourcesSet_append(map, source) == Append(map, source)

\* this.sources.set(source.sourceId, source): a Map keeps an existing key at
\* its place and replaces its value
sourcesSet(map, source) ==
  IF \E m \in 1..Len(map) : map[m].sourceId = source.sourceId
  THEN [m \in 1..Len(map) |->
          IF map[m].sourceId = source.sourceId THEN source ELSE map[m]]
  ELSE Append(map, source)

\* the entries one Map lookup by type would find
sourcesGet_byType(map, sourceId) ==
  SelectSeq(map, LAMBDA s :
    parseSourceIdType(s.sourceId) = parseSourceIdType(sourceId))

\* this.sources.get(sourceId): the entries under that key (none or one)
sourcesGet(map, sourceId) == SelectSeq(map, LAMBDA s : s.sourceId = sourceId)

registerSource(source) ==
  /\ uPhase = "idle"
  /\ sources' = sourcesSet(sources, source)
  /\ lastRegistered' =
       { s \in lastRegistered : s.sourceId # source.sourceId } \cup { source }
  /\ superseded' =
       IF \E s \in lastRegistered :
            s.sourceId = source.sourceId /\ s # source
       THEN superseded \cup { source.sourceId }
       ELSE superseded
  /\ uReached' = {}
  /\ uReply' = NoReply
  /\ UNCHANGED << uPhase, uK, uOptions, uResponses, uInvoked, uOutcome >>
  /\ UNCHANGED << embedVars, opVars, concVars, searchVars, maintVars, chunkVars >>

\* this.sources.delete(sourceId)
unregisterSource(id) ==
  /\ uPhase = "idle"
  /\ sources' = SelectSeq(sources, LAMBDA s : s.sourceId # id)
  /\ lastRegistered' = { s \in lastRegistered : s.sourceId # id }
  /\ uReached' = {}
  /\ uReply' = NoReply
  /\ UNCHANGED << uPhase, uK, uOptions, uResponses, uInvoked, uOutcome,
                  superseded >>
  /\ UNCHANGED << embedVars, opVars, concVars, searchVars, maintVars, chunkVars >>

\* listSources(): sourceId and description of every registered source
listSources ==
  /\ uPhase = "idle"
  /\ uReached' = Range(sources)
  /\ uReply' = [NoReply EXCEPT
                  !.op = "listSources",
                  !.listed = [m \in 1..Len(sources) |->
                                [sourceId |-> sources[m].sourceId,
                                 description |-> sources[m].description]]]
  /\ UNCHANGED << sources, uPhase, uK, uOptions, uResponses, uInvoked,
                  uOutcome, lastRegistered, superseded >>
  /\ UNCHANGED << embedVars, opVars, concVars, searchVars, maintVars, chunkVars >>

\* what a source's getItem(itemId) does: it rejects, or resolves to null or
\* to the item
ItemAnswers ==
  { [rejects |-> TRUE, item |-> NoItem],
    [rejects |-> FALSE, item |-> NoItem],
    [rejects |-> FALSE, item |-> [given |-> TRUE, preview |-> <<"p">>]] }

\* getItem(sourceId, itemId); answer is what the getItem of the source
\* found does when it is called
getItem(sourceId, itemId, answer) ==
  /\ uPhase = "idle"
  /\ LET found == sourcesGet(sources, sourceId)
         routed == SelectSeq(found, LAMBDA s : s.hasGetItem)
     IN /\ uReached' = Range(routed)
        /\ uReply' = [NoReply EXCEPT
                        !.op = "getItem",
                        !.sourceId = sourceId,
                        !.itemId = itemId,
                        !.answer = IF Len(routed) > 0 THEN answer
                                   ELSE NoReply.answer,
                        !.status = IF Len(routed) > 0 /\ answer.rejects
                                   THEN "rejected" ELSE "resolved",
                        !.item = IF Len(routed) > 0 /\ ~answer.rejects
                                 THEN answer.item ELSE NoItem]
  /\ UNCHANGED << sources, uPhase, uK, uOptions, uResponses, uInvoked,
                  uOutcome, lastRegistered, superseded >>
  /\ UNCHANGED << embedVars, opVars, concVars, searchVars, maintVars, chunkVars >>

\* the filter callback with the source type compared as a whole id
passesFilters_wholeId(sourceId, options) ==
  /\ options.sources.given => sourceId \in options.sources.values
  /\ options.sourceTypes.given => sourceId \in options.sourceTypes.values

\* the filter callback of search
passesFilters(sourceId, options) ==
  /\ options.sources.given => sourceId \in options.sources.values
  /\ options.sourceTypes.given =>
       parseSourceIdType(sourceId) \in options.sourceTypes.values

\* results.map(...) of one source
tagged(sourceId, results) ==
  [m \in 1..Len(results) |->
     [source |-> sourceId, id |-> results[m].id,
      similarity |-> results[m].similarity,
      preview |-> results[m].contextText]]

\* resultArrays.flat()
RECURSIVE flat(_, _)
flat(toSearch, resp) ==
  IF Len(toSearch) = 0 THEN << >>
  ELSE tagged(Head(toSearch).sourceId,
              resp[Head(toSearch).sourceId].results)
         \o flat(Tail(toSearch), resp)

\* the first k results without the sort
rankAll_unsorted(allResults, kk) ==
  SubSeq(allResults, 1, Min(kk, Len(allResults)))

\* allResults.sort((a, b) => b.similarity - a.similarity).slice(0, k)
rankAll(allResults, kk) ==
  LET sorted == stableSortBy(allResults,
                  [m \in 1..Len(allResults) |-> 0 - allResults[m].similarity])
  IN SubSeq(sorted, 1, Min(kk, Len(sorted)))

\* UnifiedSearchService.search; resp is what each source's search does
unifiedSearch(kk, options, resp) ==
  /\ uPhase = "idle"
  /\ LET sourcesToSearch ==
           SelectSeq(sources, LAMBDA s : passesFilters(s.sourceId, options))
         invoked == { sourcesToSearch[m].sourceId :
                        m \in 1..Len(sourcesToSearch) }
     IN /\ uInvoked' = invoked
        /\ uReached' = Range(sourcesToSearch)
        /\ uResponses' = [id \in invoked |-> resp[id]]
        /\ uOutcome' =
             IF Len(sourcesToSearch) = 0
             THEN [status |-> "resolved", results |-> << >>]
             ELSE IF \E id \in invoked : resp[id].rejects
             THEN [status |-> "rejected", results |-> << >>]
             ELSE [status |-> "resolved",
                   results |-> rankAll(flat(sourcesToSearch, resp), kk)]
  /\ uPhase' = "done"
  /\ uK' = kk
  /\ uOptions' = options
  /\ uReply' = NoReply
  /\ UNCHANGED << sources, lastRegistered, superseded >>
  /\ UNCHANGED << embedVars, opVars, concVars, searchVars, maintVars, chunkVars >>

NextUnified ==
  \/ \E id \in SourceIds : registerSource(Source(id, "first", TRUE))
  \/ \E id \in SourceIds : unregisterSource(id)
  \/ \E kk \in 1..MaxK, options \in UnifiedOptions,
        resp \in [SourceIds -> SourceResponses \cup {Reject}] :
        unifiedSearch(kk, options, resp)

SpecUnified == Init /\ [][NextUnified]_vars

\* -------------------------------------------------------- source registry
\* ids asked for: the registered ones and one never registered
AskedIds == SourceIds \cup { <<"t">> }

ItemIdsAsked == { <<"i">> }

\* registry calls in any order, with listSources, getItem and search calls
\* in between
NextRegistry ==
  \/ \E source \in SourceObjects : registerSource(source)
  \/ \E id \in SourceIds : unregisterSource(id)
  \/ listSources
  \/ \E sourceId \in AskedIds, itemId \in ItemIdsAsked,
        answer \in ItemAnswers : getItem(sourceId, itemId, answer)
  \/ \E resp \in [SourceIds -> { Resolve(<< >>) }] :
        unifiedSearch(1, [sourceTypes |-> Absent, sources |-> Absent], resp)

SpecRegistry == Init /\ [][NextRegistry]_vars

\* ------------------------------------------------------ chunkText by itself
\* longest text and largest window chunkText is called with
MaxTextLen == 8
MaxChunkSize == 4

Alphabet == <<"a", "b", "c", "d", "e", "f", "g", "h", "i", "j">>

\* texts of every length up to MaxTextLen, all characters distinct
Texts == { SubSeq(Alphabet, 1, n) : n \in 0..MaxTextLen }

\* a call chunkText(text, chunkSize, overlap) with 0 <= overlap < chunkSize
ChunkInputs ==
  /\ cText \in Texts
  /\ cChunkSize \in 1..MaxChunkSize
  /\ cOverlap \in 0..(cChunkSize - 1)
  /\ cChunks = << >>
  /\ cDone = FALSE
  /\ wStart = 0
  /\ wChunks = << >>
  /\ wPhase = "idle"

chunkTextCall ==
  /\ ~cDone
  /\ cChunks' = chunkText(cText, cChunkSize, cOverlap)
  /\ cDone' = TRUE
  /\ UNCHANGED << cText, cChunkSize, cOverlap, wStart, wChunks, wPhase >>
  /\ UNCHANGED << embedVars, opVars, concVars, searchVars, unifiedVars, maintVars >>

InitChunk ==
  /\ ServiceInit
  /\ SearchIdle
  /\ UnifiedIdle
  /\ MaintIdle
  /\ ChunkInputs
  /\ OpIdle
  /\ ConcIdle

NextChunk == chunkTextCall

SpecChunk == InitChunk /\ [][NextChunk]_vars

\* ------------------------------------------- getDiagnostics and maintain
\* most rows the table is filled with
MaxRows == 1000

\* rows added to the table by one embedding run
RowIncrements == { 100, 900 }

\* no index on the "vector" column
NoIndex == [exists |-> FALSE, numIndexedRows |-> 0]

\* table.indexStats(name) of the vector index: rows added since the index
\* was built are unindexed
indexStats ==
  [numIndexedRows |-> index.numIndexedRows,
   numUnindexedRows |-> numRows - index.numIndexedRows]

\* a store call of a getDiagnostics / maintain run that fails ("none": all
\* succeed; "noStats": indexStats resolves to undefined)
StoreFaults ==
  { "none", "listIndices", "indexStats", "noStats", "countRows",
    "createIndex", "optimize" }

\* what table.optimize resolves to: with or without its compaction and
\* prune statistics
OptimizeResults ==
  { [compaction |-> [given |-> TRUE, fragmentsRemoved |-> 2,
                     fragmentsAdded |-> 1],
     prune |-> [given |-> TRUE, bytesRemoved |-> 5,
                oldVersionsRemoved |-> 1]],
    [compaction |-> [given |-> FALSE, fragmentsRemoved |-> 0,
                     fragmentsAdded |-> 0],
     prune |-> [given |-> FALSE, bytesRemoved |-> 0,
                oldVersionsRemoved |-> 0]] }

\* maintain calls followed after a maintain call without a write in between
MaxRepeats == 1

\* indexStaleThreshold values as fractions num / den
Thresholds ==
  { [num |-> 0, den |-> 1], [num |-> 1, den |-> 10], [num |-> 1, den |-> 2] }

\* indexStaleThreshold = 0.1 when the option is not given
DefaultThreshold == [num |-> 1, den |-> 10]

MaintenanceOptions ==
  [skipCompaction : BOOLEAN, skipIndex : BOOLEAN, skipCleanup : BOOLEAN,
   indexStaleThreshold :
     { [given |-> FALSE, value |-> DefaultThreshold] }
       \cup { [given |-> TRUE, value |-> t] : t \in Thresholds }]

\* maintain() called without options
DefaultOptions ==
  [skipCompaction |-> FALSE, skipIndex |-> FALSE, skipCleanup |-> FALSE,
   indexStaleThreshold |-> [given |-> FALSE, value |-> DefaultThreshold]]

\* nothing reported by a call not made (or forgotten after a write)
NoCall ==
  /\ mPhase' = "idle"
  /\ mOptions' = << >>
  /\ mEnv' = << >>
  /\ mCalls' = << >>
  /\ diagnostics' = << >>
  /\ mResult' = << >>
  /\ mRepeats' = 0

\* an embedding run adds n rows (the table is created with the first ones)
addRows(n) ==
  /\ numRows + n <= MaxRows
  /\ numRows' = numRows + n
  /\ mTable' = TRUE
  /\ UNCHANGED index
  /\ NoCall
  /\ UNCHANGED << embedVars, opVars, concVars, searchVars, unifiedVars, chunkVars >>

\* every row is deleted; the table and its index stay
deleteRows ==
  /\ mTable
  /\ numRows > 0
  /\ numRows' = 0
  /\ index' = [index EXCEPT !.numIndexedRows = 0]
  /\ UNCHANGED mTable
  /\ NoCall
  /\ UNCHANGED << embedVars, opVars, concVars, searchVars, unifiedVars, chunkVars >>

\* findVectorIndexName() returned a name
indexFound(fault) == index.exists /\ fault # "listIndices"

\* (numIndexedRows / total) * 100
stalePercent_ofIndexed(stats) ==
  LET total == stats.numIndexedRows + stats.numUnindexedRows
  IN IF total > 0
     THEN [num |-> stats.numIndexedRows * 100, den |-> total]
     ELSE [num |-> 0, den |-> 1]

\* (numUnindexedRows / total) * 100 as a fraction; 0 for an empty index
stalePercent(stats) ==
  LET total == stats.numIndexedRows + stats.numUnindexedRows
  IN IF total > 0
     THEN [num |-> stats.numUnindexedRows * 100, den |-> total]
     ELSE [num |-> 0, den |-> 1]

\* stalePercent >= 10
needsRebuild_atBoundary(percent) == percent.num >= 10 * percent.den

\* stalePercent > 10
needsRebuild(percent) == percent.num > 10 * percent.den

NoIndexReport ==
  [given |-> FALSE, numIndexedRows |-> 0, numUnindexedRows |-> 0,
   stalePercent |-> [num |-> 0, den |-> 1], needsRebuild |-> FALSE]

\* at most one getDiagnostics call is followed between two writes
getDiagnostics(fault) ==
  /\ mPhase \in { "idle", "maintained" }
  /\ fault \in { "none", "listIndices", "indexStats", "noStats", "countRows" }
  /\ diagnostics' =
       IF ~mTable
       THEN [status |-> "resolved", totalRows |-> 0, index |-> NoIndexReport]
       ELSE IF fault = "countRows"
       THEN [status |-> "rejected", totalRows |-> 0, index |-> NoIndexReport]
       ELSE [status |-> "resolved", totalRows |-> numRows,
             index |->
               IF indexFound(fault) /\ fault \notin {"indexStats", "noStats"}
               THEN [given |-> TRUE,
                     numIndexedRows |-> indexStats.numIndexedRows,
                     numUnindexedRows |-> indexStats.numUnindexedRows,
                     stalePercent |-> stalePercent(indexStats),
                     needsRebuild |-> needsRebuild(stalePercent(indexStats))]
               ELSE NoIndexReport]
  /\ mPhase' = "diagnosed"
  /\ mEnv' = [fault |-> fault, index |-> index]
  /\ UNCHANGED << mTable, numRows, index, mOptions, mCalls, mResult,
                  mRepeats >>
  /\ UNCHANGED << embedVars, opVars, concVars, searchVars, unifiedVars, chunkVars >>

\* an entry of the result that is left out
Omitted == [given |-> FALSE, a |-> 0, b |-> 0]

Entry(a, b) == [given |-> TRUE, a |-> a, b |-> b]

\* stalePercent >= indexStaleThreshold
isStale_atThreshold(stats, threshold) ==
  LET total == stats.numIndexedRows + stats.numUnindexedRows
  IN /\ total > 0
     /\ stats.numUnindexedRows * threshold.den >= threshold.num * total

\* stalePercent > indexStaleThreshold, with stalePercent = unindexed / total
\* (0 for an empty index)
isStale(stats, threshold) ==
  LET total == stats.numIndexedRows + stats.numUnindexedRows
  IN /\ total > 0
     /\ stats.numUnindexedRows * threshold.den > threshold.num * total

\* maintain(options); fault is the store call that fails during the run and
\* opt what table.optimize resolves to.  In the result, compaction is
\* Entry(fragmentsRemoved, filesCreated), cleanup is Entry(bytesRemoved,
\* versionsRemoved) and indexStats is Entry(numIndexedRows, numUnindexedRows)
\* (Omitted or Entry).  mRepeats counts the maintain calls that follow
\* another maintain call with no write in between.
maintain(options, fault, opt) ==
  /\ \/ mPhase = "idle"
     \/ mPhase = "maintained" /\ mRepeats < MaxRepeats
  /\ mRepeats' = IF mPhase = "idle" THEN 0 ELSE mRepeats + 1
  /\ LET threshold == options.indexStaleThreshold.value
         ranOptimize == mTable /\ (~options.skipCompaction \/ ~options.skipCleanup)
         optimized == ranOptimize /\ fault # "optimize"
         compaction ==
           IF ~ranOptimize \/ options.skipCompaction THEN Omitted
           ELSE IF ~optimized THEN Entry(0, 0)
           ELSE Entry(opt.compaction.fragmentsRemoved,
                      opt.compaction.fragmentsAdded)
         cleanup ==
           IF ~ranOptimize \/ options.skipCleanup THEN Omitted
           ELSE IF ~optimized THEN Entry(0, 0)
           ELSE Entry(opt.prune.bytesRemoved, opt.prune.oldVersionsRemoved)
         indexStep == mTable /\ ~options.skipIndex
         \* stats is truthy
         hasStats == /\ indexStep
                     /\ indexFound(fault)
                     /\ fault \notin {"indexStats", "noStats"}
         \* indexStats() threw: the rest of the step is skipped
         statsThrew == indexStep /\ indexFound(fault) /\ fault = "indexStats"
         rebuilds == hasStats /\ isStale(indexStats, threshold)
         creates == /\ indexStep
                    /\ ~hasStats
                    /\ ~statsThrew
                    /\ fault # "countRows"
                    /\ numRows > 0
         built == (rebuilds \/ creates) /\ fault # "createIndex"
     IN /\ mResult' =
             [indexRebuilt |-> built,
              compaction |-> compaction,
              cleanup |-> cleanup,
              indexStats |->
                IF hasStats
                THEN Entry(indexStats.numIndexedRows,
                           indexStats.numUnindexedRows)
                ELSE IF creates /\ built THEN Entry(numRows, 0)
                ELSE Omitted]
        /\ index' = IF built
                    THEN [exists |-> TRUE, numIndexedRows |-> numRows]
                    ELSE index
        /\ mCalls' =
             (IF ranOptimize
              THEN << [op |-> "optimize", cleanup |-> ~options.skipCleanup] >>
              ELSE << >>)
             \o (IF rebuilds \/ creates
                 THEN << [op |-> "createIndex", cleanup |-> FALSE] >>
                 ELSE << >>)
  /\ mPhase' = "maintained"
  /\ mOptions' = options
  /\ mEnv' = [fault |-> fault, index |-> index]
  /\ diagnostics' = << >>
  /\ UNCHANGED << mTable, numRows >>
  /\ UNCHANGED << embedVars, opVars, concVars, searchVars, unifiedVars, chunkVars >>

NextMaintain ==
  \/ \E n \in RowIncrements : addRows(n)
  \/ deleteRows
  \/ \E fault \in StoreFaults : getDiagnostics(fault)
  \/ \E options \in MaintenanceOptions, fault \in StoreFaults,
        opt \in OptimizeResults :
       /\ mPhase = "idle"
       /\ maintain(options, fault, opt)
  \/ \E fault \in StoreFaults, opt \in OptimizeResults :
       /\ mPhase = "maintained"
       /\ maintain(DefaultOptions, fault, opt)

SpecMaintain == Init /\ [][NextMaintain]_vars

\* ------------------------------- delete, deleteByIds, cleanup, getEmbedding
\* ids given to the calls: item ids, a chunk id and an id never stored
OpIds == ItemIds \cup { <<"a", "#", "1">>, <<"c">> }

\* the calls are followed one at a time, between embedBatch calls
opReady ==
  /\ pc \in { "idle", "done" }
  /\ opName = "none"

\* delete(id); ok: table.delete resolves (a rejection is swallowed)
delete(id, ok) ==
  /\ opReady
  /\ table' = IF tableExists /\ ok THEN tableDelete(table, {id}) ELSE table
  /\ opName' = "delete"
  /\ opIds' = {id}
  /\ opFault' = IF ok THEN "none" ELSE "delete"
  /\ opBefore' = table
  /\ opResult' = NoResult
  /\ UNCHANGED << tableExists, calls, pc, items, forceAll, skipped, errors,
                  processedBaseIds, buffer, stored, existingIds,
                  itemsToEmbed, chunksToEmbed, i, prevTable, flushLog,
                  embedLog, reports, failures, batchSize, storeBatchSize >>
  /\ UNCHANGED << searchVars, unifiedVars, maintVars, chunkVars, concVars >>

\* deleteByIds(ids): one table.delete with the OR of the ids, none for an
\* empty list
deleteByIds(ids, ok) ==
  /\ opReady
  /\ table' = IF ids # {} /\ tableExists /\ ok
              THEN tableDelete(table, ids) ELSE table
  /\ opName' = "deleteByIds"
  /\ opIds' = ids
  /\ opFault' = IF ok THEN "none" ELSE "delete"
  /\ opBefore' = table
  /\ opResult' = NoResult
  /\ UNCHANGED << tableExists, calls, pc, items, forceAll, skipped, errors,
                  processedBaseIds, buffer, stored, existingIds,
                  itemsToEmbed, chunksToEmbed, i, prevTable, flushLog,
                  embedLog, reports, failures, batchSize, storeBatchSize >>
  /\ UNCHANGED << searchVars, unifiedVars, maintVars, chunkVars, concVars >>

\* getEmbeddedIds(): the id column of every row, [] when the scan throws
getEmbeddedIds(tbl, exists, ok) ==
  IF exists /\ ok THEN [k \in 1..Len(tbl) |-> tbl[k].id] ELSE << >>

\* cleanup(keepIds); fault is the store call that fails during the run:
\* "scan" (the query of getEmbeddedIds) or "delete" (every table.delete)
cleanup(keepIds, fault) ==
  /\ opReady
  /\ LET currentIds == getEmbeddedIds(table, tableExists, fault # "scan")
         toRemove == SelectSeq(currentIds, LAMBDA id : id \notin keepIds)
     IN /\ table' = IF tableExists /\ fault # "delete"
                    THEN tableDelete(table, Range(toRemove)) ELSE table
        /\ opResult' = [NoResult EXCEPT !.removed = Len(toRemove)]
  /\ opName' = "cleanup"
  /\ opIds' = keepIds
  /\ opFault' = fault
  /\ opBefore' = table
  /\ UNCHANGED << tableExists, calls, pc, items, forceAll, skipped, errors,
                  processedBaseIds, buffer, stored, existingIds,
                  itemsToEmbed, chunksToEmbed, i, prevTable, flushLog,
                  embedLog, reports, failures, batchSize, storeBatchSize >>
  /\ UNCHANGED << searchVars, unifiedVars, maintVars, chunkVars, concVars >>

\* getEmbedding(id): the first row with that id, null (no row) when there
\* is none, when there is no table or when the query throws
getEmbedding(id, ok) ==
  /\ opReady
  /\ LET rows == IF tableExists /\ ok
                 THEN SelectSeq(table, LAMBDA r : r.id = id) ELSE << >>
     IN opResult' = [NoResult EXCEPT
                       !.rows = SubSeq(rows, 1, Min(1, Len(rows)))]
  /\ opName' = "getEmbedding"
  /\ opIds' = {id}
  /\ opFault' = IF ok THEN "none" ELSE "query"
  /\ opBefore' = table
  /\ UNCHANGED embedVars
  /\ UNCHANGED << searchVars, unifiedVars, maintVars, chunkVars, concVars >>

\* one embedBatch on a new service, nothing failing, and one of the calls
\* before or after it
NextStore ==
  \/ \E its \in ItemLists :
        calls = 0 /\ opName = "none" /\ embedBatchStart(its, FALSE)
  \/ embedBatchGroup(TRUE, 0)
  \/ embedBatchFinish(0)
  \/ \E id \in OpIds, ok \in BOOLEAN : delete(id, ok)
  \/ \E ids \in SUBSET OpIds, ok \in BOOLEAN : deleteByIds(ids, ok)
  \/ \E keepIds \in SUBSET OpIds, fault \in { "none", "scan", "delete" } :
        cleanup(keepIds, fault)
  \/ \E id \in OpIds, ok \in BOOLEAN : getEmbedding(id, ok)

SpecStore == Init /\ [][NextStore]_vars

\* ------------------------------------------------------- buffered writes
\* largest storeBatchSize option given to embedBatch
MaxStoreBatchSize == 4

\* a new service whose caller picks batchSize and storeBatchSize
InitBuffer ==
  /\ FreshService
  /\ batchSize \in 1..MaxBatchSize
  /\ storeBatchSize \in 1..MaxStoreBatchSize
  /\ SearchIdle
  /\ UnifiedIdle
  /\ MaintIdle
  /\ ChunkIdle
  /\ OpIdle
  /\ ConcIdle

\* one embedBatch on a new service, nothing failing
NextBuffer ==
  \/ \E its \in SearchItemLists : calls = 0 /\ embedBatchStart(its, FALSE)
  \/ embedBatchGroup(TRUE, 0)
  \/ embedBatchFinish(0)

SpecBuffer == InitBuffer /\ [][NextBuffer]_vars

\* ------------------------------------------- concurrent embedBatch calls
\* two embedBatch([item]) calls with default options (forceAll = false, one
\* final flush) on one service; each step below runs from one await of the
\* call to the next, and the steps of the two calls interleave freely
Writers == { 1, 2 }

otherWriter(w) == 3 - w

\* the items the two calls are given: one id, any of the texts
RaceItems ==
  { [id |-> <<"a">>, text |-> p.text, contextText |-> p.contextText] :
      p \in Payloads }

raceFrame ==
  /\ UNCHANGED << calls, pc, items, forceAll, skipped, errors,
                  processedBaseIds, buffer, stored, existingIds,
                  itemsToEmbed, chunksToEmbed, i, prevTable, flushLog,
                  embedLog, reports, failures, batchSize, storeBatchSize >>
  /\ UNCHANGED << searchVars, unifiedVars, maintVars, chunkVars, opVars >>
  /\ UNCHANGED << initVars, pend >>

\* the scan of the stored ids and hashes, the change filter and the list
\* of chunk ids to delete
writerScan(w, item) ==
  /\ writers[w].pc = "idle"
  /\ LET toEmbed == filterItems(table, tableExists, FALSE, << item >>)
         del == idsToDelete(table, tableExists, toEmbed)
     IN writers' =
          [writers EXCEPT
             ![w] = [pc |-> IF Len(toEmbed) = 0 THEN "done" ELSE "scanned",
                     item |-> item,
                     toDelete |-> del,
                     existingIds |-> loadExistingIds(table, tableExists),
                     afterOther |-> writers[otherWriter(w)].pc = "done"]]
  /\ UNCHANGED << table, tableExists >>
  /\ raceFrame

\* deleteByIds(idsToDelete) and the removal of those ids from existingIds
writerDelete(w) ==
  /\ writers[w].pc = "scanned"
  /\ LET deletes == writers[w].toDelete # {} /\ tableExists
     IN /\ table' = IF deletes
                    THEN tableDelete(table, writers[w].toDelete) ELSE table
        /\ writers' =
             [writers EXCEPT
                ![w].pc = "deleted",
                ![w].existingIds =
                   IF deletes
                   THEN writers[w].existingIds \ writers[w].toDelete
                   ELSE writers[w].existingIds]
  /\ UNCHANGED tableExists
  /\ raceFrame

\* the provider.embed calls of the loop: the records are in the buffer
writerEmbed(w) ==
  /\ writers[w].pc = "deleted"
  /\ writers' = [writers EXCEPT ![w].pc = "embedded"]
  /\ UNCHANGED << table, tableExists >>
  /\ raceFrame

\* the final flush: storeEmbeddingsBatch(buffer, existingIds)
writerFlush(w) ==
  /\ writers[w].pc = "embedded"
  /\ LET chunks == chunksOfItem(writers[w].item)
         res == storeEmbeddingsBatch(table, tableExists,
                                     recordsOf(0, chunks),
                                     writers[w].existingIds, 0)
     IN /\ table' = res.table
        /\ tableExists' = res.tableExists
  /\ writers' = [writers EXCEPT ![w].pc = "done"]
  /\ raceFrame

NextRace ==
  \/ \E w \in Writers, item \in RaceItems : writerScan(w, item)
  \/ \E w \in Writers : writerDelete(w)
  \/ \E w \in Writers : writerEmbed(w)
  \/ \E w \in Writers : writerFlush(w)

SpecRace == Init /\ [][NextRace]_vars

\* ------------------------------------------------- the loops, step by step
\* a window start that moves by the overlap
windowAdvance_byOverlap(start, chunkSize, overlap) == start + overlap

\* start += chunkSize - overlap
windowAdvance(start, chunkSize, overlap) == start + chunkSize - overlap

loopFrame ==
  /\ UNCHANGED << cText, cChunkSize, cOverlap, cChunks, cDone >>
  /\ UNCHANGED << embedVars, searchVars, unifiedVars, maintVars, opVars,
                  concVars >>

\* chunkText up to its loop: a text that fits is returned as one chunk
chunkEnter ==
  /\ wPhase = "idle"
  /\ IF Len(cText) <= cChunkSize
     THEN wChunks' = << cText >> /\ wPhase' = "done"
     ELSE wChunks' = << >> /\ wPhase' = "loop"
  /\ wStart' = 0
  /\ loopFrame

\* the loop condition and one iteration of the while loop
chunkIteration ==
  /\ wPhase = "loop"
  /\ \/ /\ wStart < Len(cText)
        /\ LET end == Min(wStart + cChunkSize, Len(cText))
               next == windowAdvance(wStart, cChunkSize, cOverlap)
           IN /\ wChunks' = Append(wChunks, SubSeq(cText, wStart + 1, end))
              /\ wStart' = next
              /\ wPhase' = IF Len(cText) - next < cOverlap
                               /\ next < Len(cText)
                           THEN "done" ELSE "loop"
     \/ /\ wStart >= Len(cText)
        /\ wPhase' = "done"
        /\ UNCHANGED << wStart, wChunks >>
  /\ loopFrame

\* the item whose text is the text chunked step by step
itemOfText == [id |-> <<"a">>, text |-> <<"x">>, contextText |-> cText]

\* a new service whose provider has any maxBatchSize >= 1, and a text with
\* any 0 <= overlap < chunkSize
InitLoops ==
  /\ FreshService
  /\ batchSize \in 1..MaxBatchSize
  /\ storeBatchSize = StoreBatchSize
  /\ SearchIdle
  /\ UnifiedIdle
  /\ MaintIdle
  /\ ChunkInputs
  /\ OpIdle
  /\ ConcIdle

\* chunkText step by step, then one embedBatch call whose backend and store
\* calls return or fail
NextLoops ==
  \/ chunkEnter
  \/ chunkIteration
  \/ /\ wPhase = "done"
     /\ calls = 0
     /\ embedBatchStart(<< itemOfText >>, FALSE)
  \/ \E embedOk \in BOOLEAN, failAt \in FailPoints :
        embedBatchGroup(embedOk, failAt)
  \/ \E failAt \in FailPoints : embedBatchFinish(failAt)

\* every call that was made returns or fails, and the code then goes on
LoopsFairness ==
  /\ WF_vars(chunkEnter \/ chunkIteration)
  /\ WF_vars(\E embedOk \in BOOLEAN, failAt \in FailPoints :
               embedBatchGroup(embedOk, failAt))
  /\ WF_vars(\E failAt \in FailPoints : embedBatchFinish(failAt))

SpecLoops == InitLoops /\ [][NextLoops]_vars /\ LoopsFairness

\* --------------------------------- unified search with pending sources
\* largest number of search calls, one after the other
MaxSearches == 2

PendingOptions ==
  { [sourceTypes |-> Absent, sources |-> Absent],
    [sourceTypes |-> Given({ <<"t">> }), sources |-> Absent] }

PendingResponses ==
  { Resolve(<< sourceResult(<<"i">>, 3) >>),
    Resolve(<< sourceResult(<<"i">>, 1), sourceResult(<<"j">>, 3) >>),
    Reject }

\* the sources of a search call as read now from this.sources
sourcesAtSettle_live(snapshot, current, options) ==
  SelectSeq(current, LAMBDA x : passesFilters(x.sourceId, options))

\* the sources whose results a search call collects: the sourcesToSearch
\* array built when the call started, which the map callbacks close over
sourcesAtSettle(snapshot, current, options) == snapshot

pendFrame ==
  /\ UNCHANGED << embedVars, searchVars, unifiedVars, maintVars, chunkVars,
                  opVars, writers, initVars >>

\* search(query, k, options) up to await Promise.all: the filter over
\* this.sources.values() and one source.search call per source kept
searchStart(kk, options) ==
  /\ pend.phase \in { "none", "settled" }
  /\ pend.count < MaxSearches
  /\ LET sourcesToSearch ==
           SelectSeq(sources, LAMBDA x : passesFilters(x.sourceId, options))
         called == { sourcesToSearch[m].sourceId :
                       m \in 1..Len(sourcesToSearch) }
     IN pend' = [phase |-> IF Len(sourcesToSearch) = 0 THEN "settled"
                           ELSE "pending",
                 count |-> pend.count + 1,
                 k |-> kk,
                 options |-> options,
                 registry |-> sources,
                 toSearch |-> sourcesToSearch,
                 called |-> called,
                 answered |-> {},
                 answers |-> [id \in SourceIds |-> Resolve(<< >>)],
                 outcome |-> IF Len(sourcesToSearch) = 0
                             THEN [status |-> "resolved", results |-> << >>]
                             ELSE [status |-> "none", results |-> << >>],
                 changedBefore |-> /\ pend.phase = "settled"
                                   /\ pend.registry # sources]
  /\ pendFrame

\* the promise of one source's search settles
sourceAnswers(id, response) ==
  /\ pend.phase = "pending"
  /\ id \in pend.called \ pend.answered
  /\ pend' = [pend EXCEPT !.answered = @ \cup { id },
                          !.answers[id] = response]
  /\ pendFrame

\* Promise.all settles: flat, sort, slice, or the rejection of a source
searchSettle ==
  /\ pend.phase = "pending"
  /\ \/ pend.answered = pend.called
     \/ \E id \in pend.answered : pend.answers[id].rejects
  /\ LET from == sourcesAtSettle(pend.toSearch, sources, pend.options)
     IN pend' = [pend EXCEPT
                   !.phase = "settled",
                   !.outcome =
                     IF \E id \in pend.answered : pend.answers[id].rejects
                     THEN [status |-> "rejected", results |-> << >>]
                     ELSE [status |-> "resolved",
                           results |-> rankAll(flat(from, pend.answers),
                                               pend.k)]]
  /\ pendFrame

NextPending ==
  \/ \E id \in SourceIds : registerSource(Source(id, "first", TRUE))
  \/ \E id \in SourceIds : unregisterSource(id)
  \/ \E options \in PendingOptions : searchStart(MaxK, options)
  \/ \E id \in SourceIds, response \in PendingResponses :
        sourceAnswers(id, response)
  \/ searchSettle

SpecPending == Init /\ [][NextPending]_vars

\* ------------------------------------- ensureInitialized, initialize, close
\* largest number of close() calls
MaxCloses == 1

\* a new service on a database with or without an "embeddings" table
InitFresh ==
  /\ ServiceInit
  /\ SearchIdle
  /\ UnifiedIdle
  /\ MaintIdle
  /\ ChunkIdle
  /\ OpIdle
  /\ writers = << NotStarted, NotStarted >>
  /\ Constructed
  /\ hasEmbeddings \in BOOLEAN
  /\ pend = NoSearch

initFrame ==
  /\ UNCHANGED << embedVars, searchVars, unifiedVars, maintVars, chunkVars,
                  opVars, writers, hasEmbeddings, pend >>

\* the state an operation goes on with once ensureInitialized has returned
seenBy(o) ==
  [initialized |-> initialized, db |-> db, closes |-> closes,
   fresh |-> \E n \in 1..Len(inits) :
               inits[n].pc = "resolved" /\ inits[n].epoch >= ops[o].epoch]

\* an operation is called and runs ensureInitialized up to its await: it
\* returns at once when this.initialized, awaits this.initPromise when there
\* is one, and otherwise calls initialize(), which runs up to
\* lancedb.connect
opBegin(o) ==
  /\ ops[o].pc = "idle"
  /\ IF initialized
     THEN /\ ops' = [ops EXCEPT ![o] =
                       [pc |-> "done", awaits |-> 0, epoch |-> closes,
                        saw |-> [seenBy(o) EXCEPT
                                   !.fresh = \E n \in 1..Len(inits) :
                                               /\ inits[n].pc = "resolved"
                                               /\ inits[n].epoch >= closes]]]
          /\ UNCHANGED << inits, initPromise >>
     ELSE IF initPromise # 0
     THEN /\ ops' = [ops EXCEPT ![o] =
                       [pc |-> "waiting", awaits |-> initPromise,
                        epoch |-> closes, saw |-> NotSeen]]
          /\ UNCHANGED << inits, initPromise >>
     ELSE /\ inits' = Append(inits, [pc |-> "connect", epoch |-> closes])
          /\ initPromise' = Len(inits) + 1
          /\ ops' = [ops EXCEPT ![o] =
                       [pc |-> "waiting", awaits |-> Len(inits) + 1,
                        epoch |-> closes, saw |-> NotSeen]]
  /\ UNCHANGED << initialized, db, tableHandle, closes >>
  /\ initFrame

\* the awaited initPromise has settled: the operation goes on to the table,
\* or rejects with the promise
opResume(o) ==
  /\ ops[o].pc = "waiting"
  /\ inits[ops[o].awaits].pc \in { "resolved", "rejected" }
  /\ ops' = [ops EXCEPT ![o] =
               IF inits[ops[o].awaits].pc = "resolved"
               THEN [@ EXCEPT !.pc = "done", !.saw = seenBy(o)]
               ELSE [@ EXCEPT !.pc = "failed"]]
  /\ UNCHANGED << initialized, initPromise, db, tableHandle, inits, closes >>
  /\ initFrame

\* initialize() run n goes on after the await it stopped at; ok tells
\* whether the awaited store call resolved
initStep(n, ok) ==
  /\ n \in 1..Len(inits)
  /\ LET at == inits[n].pc
         settle(to) == inits' = [inits EXCEPT ![n].pc = to]
     IN \/ /\ at = "connect"
           /\ IF ok
              THEN db' = n /\ settle("tableNames")
              ELSE UNCHANGED db /\ settle("rejected")
           /\ UNCHANGED << initialized, tableHandle >>
        \/ /\ at = "tableNames"
           /\ IF ~ok
              THEN settle("rejected") /\ UNCHANGED initialized
              ELSE IF ~hasEmbeddings
              THEN settle("resolved") /\ initialized' = TRUE
              ELSE IF db = 0
              THEN settle("rejected") /\ UNCHANGED initialized
              ELSE settle("openTable") /\ UNCHANGED initialized
           /\ UNCHANGED << db, tableHandle >>
        \/ /\ at = "openTable"
           /\ IF ok
              THEN tableHandle' = TRUE /\ settle("ensureIdIndex")
              ELSE UNCHANGED tableHandle /\ settle("rejected")
           /\ UNCHANGED << initialized, db >>
        \/ /\ at = "ensureIdIndex"
           /\ settle("resolved")
           /\ initialized' = TRUE
           /\ UNCHANGED << db, tableHandle >>
  /\ UNCHANGED << initPromise, ops, closes >>
  /\ initFrame

close ==
  /\ closes < MaxCloses
  /\ db' = 0
  /\ tableHandle' = FALSE
  /\ initialized' = FALSE
  /\ initPromise' = 0
  /\ closes' = closes + 1
  /\ UNCHANGED << inits, ops >>
  /\ initFrame

NextInit ==
  \/ \E o \in Ops : opBegin(o)
  \/ \E o \in Ops : opResume(o)
  \/ \E n \in 1..MaxOps, ok \in BOOLEAN : initStep(n, ok)
  \/ close

SpecInit == InitFresh /\ [][NextInit]_vars

\* =================================================================== claims
HasHash(id) == "#" \in Range(id)

\* the current call was given only ids without '#'
PlainCall == \A k \in 1..Len(items) : ~HasHash(items[k].id)

\* cid is id itself or id + "#" + digits: a chunk id the service forms for id
isChunkIdOf(cid, id) ==
  \/ cid = id
  \/ /\ Len(cid) > Len(id) + 1
     /\ SubSeq(cid, 1, Len(id)) = id
     /\ cid[Len(id) + 1] = "#"
     /\ \A k \in (Len(id) + 2)..Len(cid) : IsDigit(cid[k])

storedChunks(tbl, id) ==
  { tbl[k] : k \in { j \in 1..Len(tbl) : isChunkIdOf(tbl[j].id, id) } }

storedChunkCount(tbl, id) ==
  Cardinality({ j \in 1..Len(tbl) : isChunkIdOf(tbl[j].id, id) })

newChunks(item) ==
  { [id |-> c.chunkId, text_hash |-> c.textHash, context_text |-> c.text] :
      c \in Range(chunksOfItem(item)) }

NoFailure ==
  /\ \A k \in 1..Len(embedLog) : embedLog[k].ok
  /\ \A k \in 1..Len(flushLog) : flushLog[k].ok

NoDuplicateIds(tbl) ==
  \A j, k \in 1..Len(tbl) : j # k => tbl[j].id # tbl[k].id

\* C1: at the return of embedBatch (forceAll = false, ids without '#'), also
\* when a backend call or a flush failed, the stored chunks of every already
\* stored item that was selected for re-embedding are exactly its previous
\* chunk set or exactly its new chunk set.
C1_AtomicReplace ==
  (pc = "done" /\ ~forceAll /\ PlainCall) =>
    \A k \in 1..Len(itemsToEmbed) :
      LET now == storedChunks(table, itemsToEmbed[k].id)
          before == storedChunks(prevTable, itemsToEmbed[k].id)
      IN before # {} => (now = before \/ now = newChunks(itemsToEmbed[k]))

\* C2: after an embedBatch call without failures (ids without '#'), every
\* selected item that had stored chunks is stored as exactly its new chunk
\* set, one record per new chunk and none of the old chunk ids left over;
\* forceAll calls included.
C2_OldChunksDeleted ==
  (pc = "done" /\ NoFailure /\ PlainCall) =>
    \A k \in 1..Len(itemsToEmbed) :
      storedChunks(prevTable, itemsToEmbed[k].id) # {} =>
        /\ storedChunks(table, itemsToEmbed[k].id) = newChunks(itemsToEmbed[k])
        /\ storedChunkCount(table, itemsToEmbed[k].id)
             = Cardinality(newChunks(itemsToEmbed[k]))

embeddedTexts(its) ==
  [k \in 1..Len(its) |-> [id |-> its[k].id, text |-> textToEmbed(its[k])]]

\* C3: idempotence: when embedBatch returned with errors = 0 and the next
\* call is embedBatch with the same ids and embedded texts and forceAll =
\* false, that call skips every item, plans no backend call and leaves the
\* table unchanged.
C3_Idempotent ==
  [][ ( /\ pc = "done" /\ errors = 0
        /\ pc' = "loop" /\ ~forceAll'
        /\ embeddedTexts(items') = embeddedTexts(items) )
      => ( /\ skipped' = Len(items')
           /\ chunksToEmbed' = << >>
           /\ table' = table ) ]_vars

\* the store holds exactly the records of its (one item per id), stored by a
\* run in which nothing failed
storedExactly(tbl, its) ==
  tbl = [k \in 1..Len(expandItems(its)) |->
           [id |-> expandItems(its)[k].chunkId,
            text_hash |-> expandItems(its)[k].textHash,
            context_text |-> expandItems(its)[k].text]]

withPayloads(its, g) ==
  [k \in 1..Len(its) |->
     [id |-> its[k].id, text |-> g[k].text, contextText |-> g[k].contextText]]

changedCount(its, old) ==
  Cardinality({ k \in 1..Len(its) :
                  textToEmbed(its[k]) # textToEmbed(old[k]) })

\* C4: change-detection precision: when the store holds exactly N items with
\* distinct ids and embedBatch (forceAll = false, nothing failing) is re-run
\* on the same N ids of which M have a different embedded text, it returns
\* processed = M and skipped = N - M.
C4_ChangePrecision ==
  (pc = "done" /\ ~forceAll /\ NoFailure) =>
    \A g \in [1..Len(items) -> Payloads] :
      storedExactly(prevTable, withPayloads(items, g)) =>
        /\ processed = changedCount(items, withPayloads(items, g))
        /\ skipped = Len(items) - changedCount(items, withPayloads(items, g))

\* C5: the counters returned by embedBatch (ids without '#') add up to the
\* number of items: processed + skipped + errors = items.length.
C5_CountersSum ==
  (pc = "done" /\ PlainCall) => processed + skipped + errors = Len(items)

\* C6: a call (embed or embedBatch, with or without forceAll, ids without
\* '#') on a table with one record per chunk id leaves one record per chunk
\* id: re-embedding replaces, it never appends a second row with the same id.
C6_OneRecordPerChunkId ==
  (pc = "done" /\ PlainCall /\ NoDuplicateIds(prevTable))
    => NoDuplicateIds(table)

\* C8: in every BatchProgress report stored <= processed, and in the final
\* report of a run whose flushes all succeeded stored = processed.
C8_StoredLagsProcessed ==
  PlainCall =>
    \A k \in 1..Len(reports) :
      /\ reports[k].stored <= reports[k].processed
      /\ (reports[k].final /\ NoFailure)
           => reports[k].stored = reports[k].processed

\* ------------------------------------------------ buffer and flush history
\* positions (in chunksToEmbed) of the records appended to the buffer so far
appendedPos ==
  { p \in 1..Len(chunksToEmbed) :
      /\ Len(chunksToEmbed[p].chunkId) # 0
      /\ \E k \in 1..Len(embedLog) :
           /\ embedLog[k].ok
           /\ p \in (embedLog[k].first + 1)..(embedLog[k].first + embedLog[k].size) }

flushCount(p) ==
  Cardinality({ jm \in UNION { {j} \X (1..Len(flushLog[j].recs)) :
                                 j \in 1..Len(flushLog) } :
                  flushLog[jm[1]].recs[jm[2]] = p })

bufferCount(p) == Cardinality({ m \in 1..Len(buffer) : buffer[m].pos = p })

flushedPos ==
  UNION { Range(flushLog[j].recs) : j \in 1..Len(flushLog) }

rowOfChunk(p) ==
  [id |-> chunksToEmbed[p].chunkId, text_hash |-> chunksToEmbed[p].textHash,
   context_text |-> chunksToEmbed[p].text]

NumGroups == (Len(chunksToEmbed) + batchSize - 1) \div batchSize

\* C7: every record appended to the write buffer is handed to the store in
\* exactly one flush before embedBatch returns (while the loop runs it is
\* either still buffered or was flushed once, never both), nothing else is
\* flushed, and when no flush failed every appended record is in the table.
C7_FlushedExactlyOnce ==
  /\ flushedPos \subseteq appendedPos
  /\ pc = "loop" =>
       \A p \in appendedPos : flushCount(p) + bufferCount(p) = 1
  /\ pc = "done" =>
       /\ \A p \in appendedPos : flushCount(p) = 1
       /\ (\A j \in 1..Len(flushLog) : flushLog[j].ok) =>
            \A p \in appendedPos : rowOfChunk(p) \in Range(table)

\* a run with a threshold flush and a final flush, both successful
C7_Witness ==
  /\ pc = "done"
  /\ Len(flushLog) >= 2
  /\ \A j \in 1..Len(flushLog) : flushLog[j].ok
  /\ flushLog[Len(flushLog)].final
  /\ Len(flushLog[1].recs) > storeBatchSize

\* the step is a storeEmbeddingsBatch call of embedBatch that threw
flushFailedStep ==
  /\ Len(flushLog') = Len(flushLog) + 1
  /\ ~flushLog'[Len(flushLog')].ok

embedFailedStep ==
  /\ Len(embedLog') = Len(embedLog) + 1
  /\ ~embedLog'[Len(embedLog')].ok

\* C10: a failed provider.embed adds the group's size to errors, appends
\* nothing to the buffer, writes nothing, and the loop goes on: at the return
\* every group was sent to the backend and the records of every successful
\* group were flushed.
C10_FailedGroup ==
  /\ [][ embedFailedStep =>
           /\ errors' = errors + embedLog'[Len(embedLog')].size
           /\ buffer' = buffer
           /\ flushLog' = flushLog
           /\ table' = table
           /\ pc' = "loop"
           /\ i' = i + batchSize ]_vars
  /\ [](pc = "done" =>
          /\ Len(embedLog) = NumGroups
          /\ \A k \in 1..Len(embedLog) :
               embedLog[k].first = (k - 1) * batchSize
          /\ \A p \in appendedPos : flushCount(p) = 1)

\* a group failed, and a later group was embedded, flushed and persisted
C10_Witness ==
  /\ pc = "done"
  /\ \E j, k \in 1..Len(embedLog) :
       /\ j < k
       /\ ~embedLog[j].ok
       /\ embedLog[k].ok
       /\ errors = embedLog[j].size
       /\ embedLog[j].size > 1
       /\ \A p \in (embedLog[k].first + 1)..(embedLog[k].first + embedLog[k].size) :
            /\ flushCount(p) = 1
            /\ rowOfChunk(p) \in Range(table)

\* ------------------------------------------------------------ search claims
\* ids of the items the store was filled from
storedItemIds == { items[j].id : j \in 1..Len(items) }

\* the rows among rs that hold a chunk of the item
rowsOfItem(rs, item) ==
  { m \in 1..Len(rs) :
      \E c \in Range(chunksOfItem(item)) :
         rs[m].id = c.chunkId /\ rs[m].context_text = c.text }

\* C11: the list returned by search holds no two results with the same
\* baseId, and every returned id is a baseId, that is the id of an item the
\* store was filled from.
C11_SearchDedup ==
  searched =>
    /\ \A m, n \in 1..Len(searchResults) :
         m # n => searchResults[m].id # searchResults[n].id
    /\ \A m \in 1..Len(searchResults) : searchResults[m].id \in storedItemIds

\* C12: search returns at most k results in non-increasing similarity order,
\* similarity is 1 - distance, and the result of a baseId carries the highest
\* similarity among the rows of that item that the store returned.
C12_SearchRanking ==
  searched =>
    /\ Len(searchResults) <= searchK
    /\ \A m \in 1..(Len(searchResults) - 1) :
         searchResults[m].similarity >= searchResults[m + 1].similarity
    /\ \A m \in 1..Len(searchResults) :
         /\ searchResults[m].similarity = 1 - searchResults[m].distance
         /\ \A j \in 1..Len(items) :
              items[j].id = searchResults[m].id =>
                LET own == rowsOfItem(searchRows, items[j])
                IN /\ \E r \in own :
                        searchResults[m].similarity = 1 - searchRows[r]._distance
                   /\ \A r \in own :
                        searchResults[m].similarity >= 1 - searchRows[r]._distance

\* C16: every chunk record that embedBatch forms for an item has a chunk id
\* whose getBaseId is the item's id.
C16_BaseIdRoundTrip ==
  \A m \in 1..Len(chunksToEmbed) :
    getBaseId(chunksToEmbed[m].chunkId) = chunksToEmbed[m].baseId

\* --------------------------------------------------- unified search claims
\* the tagged results of the queried sources that resolved, in Map order
RECURSIVE resolvedResults(_)
resolvedResults(srcs) ==
  IF Len(srcs) = 0 THEN << >>
  ELSE (IF Head(srcs).sourceId \in uInvoked
           /\ ~uResponses[Head(srcs).sourceId].rejects
        THEN tagged(Head(srcs).sourceId,
                    uResponses[Head(srcs).sourceId].results)
        ELSE << >>) \o resolvedResults(Tail(srcs))

countIn(s, v) == Cardinality({ m \in 1..Len(s) : s[m] = v })

\* ranked is a choice of the kk highest-similarity elements of all, highest
\* first
IsTopK(ranked, all, kk) ==
  /\ Len(ranked) = Min(kk, Len(all))
  /\ \A m \in 1..(Len(ranked) - 1) :
       ranked[m].similarity >= ranked[m + 1].similarity
  /\ \A v \in Range(ranked) : countIn(ranked, v) <= countIn(all, v)
  /\ \A v \in Range(all) :
       countIn(ranked, v) < countIn(all, v) =>
         \A m \in 1..Len(ranked) : ranked[m].similarity >= v.similarity

someRejected == \E id \in uInvoked : uResponses[id].rejects

\* C13: when the search of a selected source rejects, the call still
\* resolves, with the ranked results of the other selected sources.
C13_FailureIsolation ==
  (uPhase = "done" /\ someRejected) =>
    /\ uOutcome.status = "resolved"
    /\ IsTopK(uOutcome.results, resolvedResults(sources), uK)

\* C14: a registered source is queried iff the sources filter is absent or
\* holds its full id and the sourceTypes filter is absent or holds the part
\* of its id before the first '/'; every result carries the id of a queried
\* source.
C14_SourceSelection ==
  uPhase = "done" =>
    /\ \A id \in SourceIds :
         id \in uInvoked <=>
           /\ id \in registeredIds
           /\ ~uOptions.sources.given \/ id \in uOptions.sources.values
           /\ \/ ~uOptions.sourceTypes.given
              \/ \E ty \in uOptions.sourceTypes.values :
                    /\ Len(id) >= Len(ty)
                    /\ SubSeq(id, 1, Len(ty)) = ty
                    /\ Len(id) > Len(ty) => id[Len(ty) + 1] = "/"
                    /\ "/" \notin Range(ty)
    /\ \A m \in 1..Len(uOutcome.results) :
         uOutcome.results[m].source \in uInvoked

\* both filters given, a source of an allowed type left out by the id list
\* and a source queried
C14_Witness ==
  /\ uPhase = "done"
  /\ uOptions.sources.given
  /\ uOptions.sourceTypes.given
  /\ uInvoked # {}
  /\ registeredIds \ uInvoked # {}
  /\ Len(uOutcome.results) > 0

\* C15: a search that resolves returns the k highest-similarity results of
\* the union of what the selected sources returned (all when fewer than k),
\* in non-increasing similarity order, each tagged with its source.
C15_MergeAndRank ==
  (uPhase = "done" /\ uOutcome.status = "resolved") =>
    IsTopK(uOutcome.results, resolvedResults(sources), uK)

\* two sources contributed and the union was cut to k
C15_Witness ==
  /\ uPhase = "done"
  /\ uOutcome.status = "resolved"
  /\ Len(resolvedResults(sources)) > uK
  /\ Cardinality({ uOutcome.results[m].source :
                     m \in 1..Len(uOutcome.results) }) > 1

\* -------------------------------------------------------------- chunk claims
\* C17: a text longer than chunkSize is cut into windows starting at 0, s,
\* 2s, ... (s = chunkSize - overlap), each of at most chunkSize characters,
\* the last one ending at the end of the text, so that every character lies
\* in a chunk; a text of at most chunkSize characters yields [text].
C17_ChunkCoverage ==
  cDone =>
    LET s == cChunkSize - cOverlap
        n == Len(cChunks)
    IN IF Len(cText) <= cChunkSize
       THEN cChunks = << cText >>
       ELSE /\ n >= 1
            /\ \A c \in 1..n :
                 /\ Len(cChunks[c]) <= cChunkSize
                 /\ cChunks[c] =
                      SubSeq(cText, (c - 1) * s + 1,
                             Min((c - 1) * s + cChunkSize, Len(cText)))
            /\ (n - 1) * s + Len(cChunks[n]) = Len(cText)
            /\ \A p \in 1..Len(cText) :
                 \E c \in 1..n :
                    (c - 1) * s < p /\ p <= (c - 1) * s + Len(cChunks[c])

\* a text cut into three or more windows with an overlap, the loop leaving
\* early because the rest is shorter than the overlap
C17_Witness ==
  /\ cDone
  /\ cOverlap > 1
  /\ Len(cChunks) >= 3
  /\ Len(cText) - Len(cChunks) * (cChunkSize - cOverlap) \in 1..(cOverlap - 1)

\* ids of the records this call wrote for the item (a flush is logged with
\* the places of its records' chunks in chunksToEmbed)
writtenIds(item) ==
  { chunksToEmbed[p].chunkId :
      p \in { q \in UNION { Range(flushLog[f].recs) :
                              f \in { g \in 1..Len(flushLog) :
                                        flushLog[g].ok } } :
                chunksToEmbed[q].baseId = item.id } }

\* item.id, or item.id#0 .. item.id#(n-1) for n > 1 chunks
expectedIds(item) ==
  LET n == Len(chunkText(textToEmbed(item), ChunkSize, ChunkOverlap))
  IN IF n = 1 THEN { item.id }
     ELSE { item.id \o <<"#">> \o NumToString(c) : c \in 0..(n - 1) }

indexReported ==
  /\ mPhase = "diagnosed"
  /\ diagnostics.status = "resolved"
  /\ diagnostics.index.given

\* the reported stalePercent is 100 * unindexed / (indexed + unindexed)
percentIsRatio ==
  LET d == diagnostics.index
      total == d.numIndexedRows + d.numUnindexedRows
  IN total > 0 =>
       d.stalePercent.num * total = 100 * d.numUnindexedRows * d.stalePercent.den

indexBuildIssued == \E c \in 1..Len(mCalls) : mCalls[c].op = "createIndex"

\* the store answered the reads of the index step
readsAnswered ==
  mEnv.fault \notin { "listIndices", "indexStats", "noStats", "countRows" }

\* C20: with the index step not skipped (and the store answering its reads),
\* maintain builds the vector index exactly when no index exists and the
\* table has rows, or an index exists and unindexed / (indexed + unindexed)
\* is strictly greater than indexStaleThreshold (default 0.1); indexRebuilt
\* is true exactly when that build was issued and succeeded.
C20_IndexRebuild ==
  mPhase = "maintained" =>
    LET before == mEnv.index
        unindexed == numRows - before.numIndexedRows
        threshold == IF mOptions.indexStaleThreshold.given
                     THEN mOptions.indexStaleThreshold.value
                     ELSE [num |-> 1, den |-> 10]
        due == \/ ~before.exists /\ numRows > 0
               \/ /\ before.exists
                  /\ numRows > 0
                  /\ unindexed * threshold.den > threshold.num * numRows
    IN /\ (mTable /\ ~mOptions.skipIndex /\ readsAnswered) =>
            (indexBuildIssued <=> due)
       /\ (~mTable \/ mOptions.skipIndex) => ~indexBuildIssued
       /\ mResult.indexRebuilt <=>
            (indexBuildIssued /\ mEnv.fault # "createIndex")
       /\ mResult.indexRebuilt =>
            index = [exists |-> TRUE, numIndexedRows |-> numRows]

\* a stale index rebuilt under the default threshold, and an index exactly
\* at the threshold left alone
C20_Witness ==
  /\ mPhase = "maintained"
  /\ ~mOptions.skipIndex
  /\ ~mOptions.indexStaleThreshold.given
  /\ mEnv.index.exists
  /\ mEnv.fault = "none"
  /\ \/ mResult.indexRebuilt
     \/ /\ (numRows - mEnv.index.numIndexedRows) * 10 = numRows
        /\ numRows > 0

\* C21: when maintain rebuilds an existing stale index, the indexStats of its
\* result are the counts after the rebuild: every row indexed, none
\* unindexed.
C21_StatsAfterRebuild ==
  (mPhase = "maintained" /\ mEnv.index.exists /\ mResult.indexRebuilt) =>
    mResult.indexStats = Entry(numRows, 0)

\* C22: the result of maintain omits the compaction entry iff compaction was
\* skipped and the cleanup entry iff cleanup was skipped, whatever the store
\* state (no table, empty table, optimize failing).
C22_OmittedIffSkipped ==
  mPhase = "maintained" =>
    /\ ~mResult.compaction.given <=> mOptions.skipCompaction
    /\ ~mResult.cleanup.given <=> mOptions.skipCleanup

\* table.optimize always compacts the fragments; it prunes old versions when
\* called with cleanupOlderThan
compacted == \E c \in 1..Len(mCalls) : mCalls[c].op = "optimize"

pruned ==
  \E c \in 1..Len(mCalls) : mCalls[c].op = "optimize" /\ mCalls[c].cleanup

\* C23: with skipCompaction no fragment compaction is performed, with
\* skipCleanup no old version is pruned and with skipIndex no index is
\* created or rebuilt, whatever the other two flags are.
C23_IndependentSteps ==
  mPhase = "maintained" =>
    /\ mOptions.skipCompaction => ~compacted
    /\ mOptions.skipCleanup => ~pruned
    /\ mOptions.skipIndex => ~indexBuildIssued

\* the index step of the last maintain call and the reads of the
\* getDiagnostics call that followed it were answered by the store
rebuiltThenDiagnosed ==
  /\ mPhase = "diagnosed"
  /\ indexBuildIssued
  /\ mOptions = DefaultOptions
  /\ mResult.indexRebuilt
  /\ mEnv.fault = "none"

\* C24: after maintain() with default options returned indexRebuilt = true,
\* the next getDiagnostics() reports a non-null index with stalePercent = 0
\* and needsRebuild = false, and a maintain() repeated at once with no
\* write in between does not rebuild the index again (the store answering
\* the reads of both calls).
C24_Idempotent ==
  /\ [](rebuiltThenDiagnosed =>
          /\ diagnostics.status = "resolved"
          /\ diagnostics.index.given
          /\ diagnostics.index.stalePercent.num = 0
          /\ ~diagnostics.index.needsRebuild)
  /\ [][(/\ mPhase = "maintained"
          /\ mOptions = DefaultOptions
          /\ mResult.indexRebuilt
          /\ mRepeats' = mRepeats + 1
          /\ mOptions' = DefaultOptions
          /\ mEnv'.fault \notin { "listIndices", "indexStats", "noStats",
                                  "countRows" })
         => (~mResult'.indexRebuilt /\ index' = index)]_vars

\* a default maintain() that rebuilt the index, called again at once
C24_Witness ==
  /\ mPhase = "maintained"
  /\ mRepeats = 1
  /\ mOptions = DefaultOptions
  /\ mEnv.fault = "none"
  /\ mEnv.index = [exists |-> TRUE, numIndexedRows |-> numRows]
  /\ numRows > 0
  /\ ~mResult.indexRebuilt

\* ------------------------------------------------------------ buffer claims
\* number of records of the f-th store write of the call
flushSizeAt(f) == Len(flushLog[f].recs)

\* C25: when the records are produced in groups whose size divides
\* storeBatchSize S and nothing fails, embedBatch on a new service issues
\* exactly ceil(R / S) store writes for its R records, the first
\* floor(R / S) of exactly S records and a last one of R mod S records when
\* that is not zero, and the table ends with R rows.
C25_BufferedWrites ==
  (pc = "done" /\ NoFailure /\ prevTable = << >>
     /\ storeBatchSize % batchSize = 0) =>
    LET R == Len(chunksToEmbed)
        S == storeBatchSize
    IN /\ Len(flushLog) = (R + S - 1) \div S
       /\ \A f \in 1..Len(flushLog) : flushLog[f].ok
       /\ \A f \in 1..(R \div S) : flushSizeAt(f) = S
       /\ R % S # 0 => flushSizeAt(Len(flushLog)) = R % S
       /\ Len(table) = R
       /\ stored = R

\* two full writes followed by a shorter last one
C25_Witness ==
  /\ pc = "done"
  /\ NoFailure
  /\ prevTable = << >>
  /\ storeBatchSize % batchSize = 0
  /\ batchSize > 1
  /\ Len(flushLog) = 3
  /\ flushSizeAt(1) = storeBatchSize
  /\ flushSizeAt(2) = storeBatchSize
  /\ flushSizeAt(3) < storeBatchSize
  /\ Len(table) = Len(chunksToEmbed)

\* ---------------------------------------------------------- registry claims
\* C26: after any sequence of registerSource and unregisterSource calls the
\* registry holds at most one source per sourceId, the one registered last
\* and not unregistered since (a later registration replaces the earlier one
\* entirely), and search, listSources and getItem reach registered sources
\* only.
C26_LastRegistrationWins ==
  /\ \A m, n \in 1..Len(sources) :
       sources[m].sourceId = sources[n].sourceId => m = n
  /\ Range(sources) = lastRegistered
  /\ uReached \subseteq lastRegistered
  /\ uReply.op = "listSources" =>
       /\ Len(uReply.listed) = Cardinality(lastRegistered)
       /\ Range(uReply.listed) =
            { [sourceId |-> s.sourceId, description |-> s.description] :
                s \in lastRegistered }

\* a call reached the source registered in place of an earlier one, and
\* listSources listed it
C26_Witness ==
  /\ \E s \in uReached : s.sourceId \in superseded
  /\ uReply.op = "listSources"
  /\ Len(sources) > 1

\* C27: getItem(sourceId, itemId) calls getItem on the source registered
\* under exactly sourceId and on no other, and returns its answer; it
\* resolves to null, reaching no source method, when no source is
\* registered under sourceId or that source has no getItem, and resolves to
\* null when the source does not know the item.
C27_GetItemRouting ==
  uReply.op = "getItem" =>
    LET target == { s \in Range(sources) : s.sourceId = uReply.sourceId }
    IN /\ uReached \subseteq target
       /\ Cardinality(uReached) <= 1
       /\ (target = {} \/ \A s \in target : ~s.hasGetItem) =>
            /\ uReached = {}
            /\ uReply.status = "resolved"
            /\ ~uReply.item.given
       /\ (\E s \in target : s.hasGetItem) => uReached = target
       /\ uReached # {} =>
            /\ uReply.status = "rejected" <=> uReply.answer.rejects
            /\ ~uReply.answer.rejects => uReply.item = uReply.answer.item

\* getItem answered by the one source registered under the id asked for,
\* next to another source of the same type
C27_Witness ==
  /\ uReply.op = "getItem"
  /\ uReply.item.given
  /\ Cardinality(uReached) = 1
  /\ \E s \in Range(sources) :
       /\ s \notin uReached
       /\ s.hasGetItem
       /\ parseSourceIdType(s.sourceId) = parseSourceIdType(uReply.sourceId)

\* ----------------------------------------------------------- search results
\* the items given to embedBatch that have a row in the table
itemsHeld ==
  { j \in 1..Len(items) : rowsOfItem(table, items[j]) # {} }

\* C29: search(query, k) returns exactly k results whenever the store holds
\* at least k distinct items, whatever the number of chunks each item is
\* stored as (stated for item ids without '#').
C29_ExactlyK ==
  (searched /\ PlainCall /\ Cardinality(itemsHeld) >= searchK) =>
    Len(searchResults) = searchK

\* ------------------------------------------------------------ store claims
\* the rows of tbl that hold a chunk of the item
recordsOfItem(tbl, item) == { tbl[m] : m \in rowsOfItem(tbl, item) }

\* C28: cleanup(keepIds) removes every stored record whose item id is not
\* in keepIds, returns the number of records it removed, and removes no
\* record of an item whose id is in keepIds, items stored as several chunks
\* included (stated for item ids without '#' and a store that answers).
C28_CleanupKeeps ==
  (opName = "cleanup" /\ opFault = "none" /\ PlainCall) =>
    /\ \A j \in 1..Len(items) :
         IF items[j].id \in opIds
         THEN recordsOfItem(opBefore, items[j]) \subseteq Range(table)
         ELSE recordsOfItem(table, items[j]) = {}
    /\ opResult.removed = Len(opBefore) - Len(table)

\* ids of the rows the table held before the call
idsBefore == { opBefore[m].id : m \in 1..Len(opBefore) }

\* C30: delete(id) and deleteByIds(ids) for ids that are not stored, or on
\* a service without a table, leave every stored record unchanged, and
\* getEmbedding(id) of an absent id returns null; a store call that throws
\* is swallowed, so none of the three calls fails.
C30_MissingIsNoOp ==
  /\ (opName \in { "delete", "deleteByIds" } /\ opIds \cap idsBefore = {}) =>
       table = opBefore
  /\ (opName = "getEmbedding" /\ opIds \cap idsBefore = {}) =>
       opResult.rows = << >>
  /\ opName = "getEmbedding" =>
       /\ table = opBefore
       /\ \A m \in 1..Len(opResult.rows) : opResult.rows[m].id \in opIds

\* a delete of an id that is not stored, on a table that holds records
C30_Witness ==
  /\ opName \in { "delete", "deleteByIds" }
  /\ opFault = "none"
  /\ opIds # {}
  /\ opIds \cap idsBefore = {}
  /\ Len(opBefore) > 1

\* ---------------------------------------------------------- forceAll claims
\* fingerprints of the rows that held a chunk of the item when the call
\* started
storedFingerprints(item) ==
  { prevTable[m].text_hash :
      m \in { n \in 1..Len(prevTable) : isChunkIdOf(prevTable[n].id, item.id) } }

\* the item was counted as skipped by the current call
skippedItem(item) == item \notin Range(itemsToEmbed)

\* C31: with forceAll every input item is embedded whatever is stored
\* (skipped = 0, the chunks of every item go to the backend, processed =
\* items.length when nothing fails); without forceAll an item is skipped
\* exactly when the fingerprint stored for it equals the fingerprint of its
\* current embedded text (items with one stored fingerprint or none).
C31_ForceAllAndSkip ==
  pc \in { "loop", "done" } =>
    /\ skipped = Len(items) - Len(itemsToEmbed)
    /\ chunksToEmbed = expandItems(itemsToEmbed)
    /\ forceAll =>
         /\ skipped = 0
         /\ itemsToEmbed = items
         /\ (pc = "done" /\ NoFailure) => processed = Len(items)
    /\ ~forceAll =>
         \A j \in 1..Len(items) :
           Cardinality(storedFingerprints(items[j])) <= 1 =>
             (skippedItem(items[j]) <=>
                storedFingerprints(items[j])
                  = { hashText(textToEmbed(items[j])) })

\* C31 for calls and stores without an id that contains '#'
C31_PlainIds ==
  (PlainCall /\ \A m \in 1..Len(prevTable) :
                  \A j \in 1..Len(items) :
                    getBaseId(prevTable[m].id) = items[j].id =>
                      isChunkIdOf(prevTable[m].id, items[j].id)) =>
    C31_ForceAllAndSkip

\* ------------------------------------------------------------- race claims
bothDone == \A w \in Writers : writers[w].pc = "done"

\* the table holds exactly the chunk set of the item, each chunk once
holdsExactly(item) ==
  /\ Range(table) = newChunks(item)
  /\ Len(table) = Cardinality(newChunks(item))

\* C32, sequential half: when one embedBatch call starts after the other
\* has returned, the store ends with exactly the chunk set of the second
\* call's item.  (The concurrent half is the reachable state C32_Witness.)
C32_SequentialWriters ==
  \A w \in Writers :
    (bothDone /\ writers[w].afterOther) => holdsExactly(writers[w].item)

\* C32, concurrent half: two overlapping calls for one id with different
\* texts have returned and the store holds a duplicate chunk id or a chunk
\* set that is neither call's output
C32_Witness ==
  /\ bothDone
  /\ \A w \in Writers : ~writers[w].afterOther
  /\ writers[1].item # writers[2].item
  /\ \/ ~NoDuplicateIds(table)
     \/ \A w \in Writers : ~holdsExactly(writers[w].item)

\* ------------------------------------------------------------ group claims
\* positions in chunksToEmbed of the texts of the k-th provider.embed call
sentAt(k) == (embedLog[k].first + 1)..(embedLog[k].first + embedLog[k].size)

\* number of provider.embed calls that carried the chunk at position p
timesSent(p) == Cardinality({ k \in 1..Len(embedLog) : p \in sentAt(k) })

\* its is a subsequence of all: the same elements in the same order
RECURSIVE isSubsequence(_, _)
isSubsequence(its, all) ==
  IF Len(its) = 0 THEN TRUE
  ELSE IF Len(all) = 0 THEN FALSE
  ELSE IF Head(its) = Head(all) THEN isSubsequence(Tail(its), Tail(all))
  ELSE isSubsequence(its, Tail(all))

\* C33: provider.embed is called once per group of consecutive chunks, each
\* call with between 1 and maxBatchSize texts; the groups follow one another
\* in input order, and at the return every chunk of every item to embed was
\* sent exactly once, a failed group included; the chunks of skipped items
\* are not sent.
C33_GroupsSentOnce ==
  pc \in { "loop", "done" } =>
    /\ isSubsequence(itemsToEmbed, items)
    /\ chunksToEmbed = expandItems(itemsToEmbed)
    /\ \A k \in 1..Len(embedLog) :
         /\ embedLog[k].size >= 1
         /\ embedLog[k].size <= batchSize
         /\ embedLog[k].first =
              (IF k = 1 THEN 0
               ELSE embedLog[k - 1].first + embedLog[k - 1].size)
         /\ sentAt(k) \subseteq 1..Len(chunksToEmbed)
    /\ \A p \in 1..Len(chunksToEmbed) : timesSent(p) <= 1
    /\ pc = "done" => \A p \in 1..Len(chunksToEmbed) : timesSent(p) = 1

\* a returned call that skipped an item and sent the chunks of the others
\* in several groups, one of which failed
C33_Witness ==
  /\ pc = "done"
  /\ skipped > 0
  /\ Len(embedLog) > 1
  /\ \E k \in 1..Len(embedLog) : ~embedLog[k].ok
  /\ \E k \in 1..Len(embedLog) : embedLog[k].size < batchSize

\* C34: an item is counted as skipped only if the store holds the complete
\* chunk set of its current text; a run that persisted only some chunks of
\* an item never makes a later run skip it (stated for ids without '#' and
\* for items of which the store holds nothing but chunks of the current
\* text).
C34_SkipNeedsAllChunks ==
  (pc \in { "loop", "done" } /\ PlainCall) =>
    \A j \in 1..Len(items) :
      (/\ skippedItem(items[j])
       /\ storedChunks(prevTable, items[j].id) \subseteq newChunks(items[j]))
        => newChunks(items[j]) \subseteq Range(prevTable)

\* ------------------------------------------------- embed against embedBatch
\* the step is a call of embed (embedBatch leaves pc at "loop")
embedStep ==
  /\ calls' = calls + 1
  /\ pc' = "idle"

\* C35, the case it names: embed(item) and embedBatch([item]) leave the
\* same record ids for the item, so an embed of an item that is stored as
\* the chunks id#0..id#n does not leave those chunks next to a new record
\* 'id' (ids without '#').
C35_EmbedLikeEmbedBatch ==
  [][ embedStep =>
        \A it \in Items :
          (/\ ~HasHash(it.id)
           /\ Cardinality(newChunks(it)) > 1
           /\ storedChunks(table, it.id) = newChunks(it)
           /\ \E r \in 1..Len(table') : table'[r].id = it.id)
            => storedChunks(table', it.id) \cap newChunks(it) = {} ]_vars

\* C36: after delete(id) of an item that embedBatch stored as several
\* chunks id#0, id#1, ... no record of that item remains in the store (ids
\* without '#', the store answering).
C36_DeleteRemovesChunks ==
  (opName = "delete" /\ opFault = "none" /\ PlainCall) =>
    \A j \in 1..Len(items) :
      (/\ items[j].id \in opIds
       /\ Cardinality(recordsOfItem(opBefore, items[j])) > 1)
        => recordsOfItem(table, items[j]) = {}

\* positions in chunksToEmbed of the records built so far from groups whose
\* backend call succeeded
producedSoFar ==
  { p \in 1..Len(chunksToEmbed) :
      /\ Len(chunksToEmbed[p].chunkId) # 0
      /\ \E e \in 1..Len(embedLog) :
            /\ embedLog[e].ok
            /\ embedLog[e].first < p
            /\ p <= embedLog[e].first + embedLog[e].size }

\* positions of the records handed to a flush that failed
droppedSoFar ==
  { p \in 1..Len(chunksToEmbed) :
      \E f \in 1..Len(flushLog) :
        ~flushLog[f].ok /\ p \in Range(flushLog[f].recs) }

\* C37: every progress report of embedBatch has bufferSize < storeBatchSize
\* and stored + bufferSize = records produced so far - records dropped by
\* failed flushes; processed, stored and errors do not decrease from one
\* report to the next.
C37_ProgressReports ==
  [][ Len(reports') > Len(reports) =>
        LET r == reports'[Len(reports')]
        IN /\ r.bufferSize < storeBatchSize
           /\ r.stored + r.bufferSize
                = Cardinality(producedSoFar') - Cardinality(droppedSoFar')
           /\ Len(reports) > 0 =>
                /\ reports[Len(reports)].processed <= r.processed
                /\ reports[Len(reports)].stored <= r.stored
                /\ reports[Len(reports)].errors <= r.errors ]_vars

\* a call that reported a non-empty buffer after a successful flush and
\* whose last flush failed
C37_Witness ==
  /\ pc = "done"
  /\ \E k \in 1..Len(reports) :
        /\ ~reports[k].final
        /\ reports[k].stored > 0
        /\ reports[k].bufferSize > 0
  /\ \E f \in 1..Len(flushLog) : ~flushLog[f].ok
  /\ reports[Len(reports)].final

\* while the service has not been closed, initialize() has run at most once,
\* and once as soon as an operation was called
initializedOnce ==
  closes = 0 =>
    /\ Len(inits) <= 1
    /\ (\E o \in Ops : ops[o].pc # "idle") => Len(inits) = 1

\* an operation that went on to the table with no close() since it was
\* called found the service initialized
noAccessBeforeInit ==
  \A o \in Ops :
    (ops[o].pc = "done" /\ ops[o].saw.closes = ops[o].epoch)
      => ops[o].saw.initialized

\* an operation called after close() goes on to the table only after an
\* initialize() run started after that close() has completed
initializesAgain ==
  \A o \in Ops :
    (ops[o].pc = "done" /\ ops[o].epoch >= 1) => ops[o].saw.fresh

\* C38: for any interleaving of concurrent operations on a new service the
\* connection is initialized exactly once, no operation reaches the table
\* before that initialization has completed, and after close() the next
\* operation initializes again.
C38_InitializedOncePerOpen ==
  /\ initializedOnce
  /\ noAccessBeforeInit
  /\ initializesAgain

\* the sources registered when the pending call started that pass its
\* filters, in registration order
sourcesAtStart ==
  SelectSeq(pend.registry,
            LAMBDA x : passesFilters(x.sourceId, pend.options))

\* C39: the sources of one unified search call are those registered when
\* the call started: a registerSource or unregisterSource while the
\* per-source searches are pending changes neither the sources that
\* contribute nor the source tag of a result, and the next call reads the
\* registry as it is then.
C39_SourcesFixedAtStart ==
  /\ [][ pend'.count > pend.count =>
           pend'.called = { x.sourceId :
                             x \in { y \in Range(sources) :
                                       passesFilters(y.sourceId,
                                                     pend'.options) } } ]_vars
  /\ [](pend.phase \in { "pending", "settled" } =>
          /\ pend.called = { sourcesAtStart[m].sourceId :
                               m \in 1..Len(sourcesAtStart) }
          /\ pend.answered \subseteq pend.called
          /\ (pend.phase = "settled" /\ pend.outcome.status = "resolved") =>
               pend.outcome.results
                 = rankAll(flat(sourcesAtStart, pend.answers), pend.k))

\* a second call settled with results after the registry changed while it
\* was pending, the first call having seen a change as well
C39_Witness ==
  /\ pend.phase = "settled"
  /\ pend.count = 2
  /\ pend.changedBefore
  /\ pend.outcome.results # << >>
  /\ sourcesAtSettle_live(pend.toSearch, sources, pend.options)
       # sourcesAtStart

\* C40: with 0 <= chunkOverlap < chunkSize and maxBatchSize >= 1, and every
\* backend and store call returning or failing, the window start of
\* chunkText and the group index of the embedding loop strictly increase
\* on every iteration, and chunkText and embedBatch both terminate.
C40_LoopsTerminate ==
  /\ [][ /\ Len(wChunks') > Len(wChunks) /\ wPhase = "loop"
            => wStart' > wStart
         /\ Len(embedLog') > Len(embedLog) => i' > i ]_vars
  /\ [](wPhase = "done" => wChunks = chunkText(cText, cChunkSize, cOverlap))
  /\ (wPhase = "loop" ~> wPhase = "done")
  /\ (pc = "loop" ~> pc = "done")

\* both loops ended after several iterations, a backend or store call
\* having failed on the way
C40_Witness ==
  /\ wPhase = "done"
  /\ Len(wChunks) >= 3
  /\ cOverlap > 0
  /\ pc = "done"
  /\ Len(embedLog) >= 3
  /\ failures > 0

====
